---- MODULE Spec2Model ----
(***************************************************************************)
(* State-machine model of the VPS e-mail automation repository.            *)
(*                                                                         *)
(*   - the deployment pipeline VPSEmailOrchestrator.run_full_automation    *)
(*     (src/vps_orchestrator.py), one action per step of its control flow; *)
(*   - the two readiness polls, VPSEmailOrchestrator.wait_for_ssh and      *)
(*     EnhancedEmailConfigurator.wait_for_dns_propagation, run on their    *)
(*     own for arbitrary timeouts under PollSpec.                          *)
(*                                                                         *)
(*   - the health monitor EmailServerMonitor (src/monitor.py): the loop of *)
(*     run_continuous_monitoring under MonitorSpec, and                    *)
(*     save_status_report called repeatedly on a report directory under    *)
(*     SaveSpec.                                                           *)
(*                                                                         *)
(* The external world (VPS provider, DNS provider, SSH transport, remote   *)
(* host) is a nondeterministic choice of the answer of every call.         *)
(* Time is counted in seconds elapsed since the start of a poll.           *)
(***************************************************************************)
EXTENDS Integers, Sequences, FiniteSets, TLC

VARIABLES
    config,            \* self.config: providers, domains, emails_per_domain
    pc,                \* position of run_full_automation
    stage,             \* stage of the job: the stage of the last step executed
    vps_ip,            \* self.vps_ip
    ssh_client,        \* self.ssh_client
    sessionOpen,       \* whether the transport of self.ssh_client is connected
    email_accounts,    \* self.email_accounts
    test_results,      \* test_results of run_comprehensive_tests
    result,            \* the value run_full_automation returns
    createCalls,       \* number of POST /v2/droplets calls made
    getStatus,         \* response.status_code of the last GET /v2/droplets/<id>
    pubLeft,           \* public v4 networks of the droplet not yet iterated
    sshTimeout,        \* wait_for_ssh: timeout
    sshElapsed,        \* wait_for_ssh: time.time() - start_time
    sshAttempts,       \* wait_for_ssh: client.connect calls made
    sshResult,         \* wait_for_ssh: "none" while running, else "True" or "False"
    domIdx,            \* index of the domain of the current "for domain" loop
    recIdx,            \* index of the record of the current "for record" loop
    dnsSubmitted,      \* <<domain, record>> pairs posted to the DNS provider
    dnsFailed,         \* a record post was answered with a status other than 200
    mailIdx,           \* next step of setup_mail_server's configuration actions
    executed,          \* remote steps of setup_mail_server issued so far
    mailActionFailed,  \* a remote command of setup_mail_server exited non-zero
    accIdx,            \* loop variable i of create_email_accounts
    domainRowOk,       \* the INSERT IGNORE INTO domains of the current domain succeeded
    domainRows,        \* the domains whose INSERT IGNORE INTO domains has been issued
    unpersisted,       \* an account of email_accounts has no user row in the database
    reportCount,       \* number of reports written by generate_final_report
    reportStarted,     \* generate_final_report created its directory or a file in it
    callFailed,        \* a call of the run (provider, host, file system) failed or answered not ready
    accountFaults,     \* create_single_email_account calls in which a remote command failed
    dnsTimeout,        \* wait_for_dns_propagation: timeout
    dnsElapsed,        \* wait_for_dns_propagation: time.time() - start_time
    dnsAttempts,       \* wait_for_dns_propagation: dig invocations made
    dnsResult,         \* wait_for_dns_propagation: "none" while running, else "True" or "False"
    bootstrapSeen,     \* wait_for_cloud_init has read the completion marker
    mconfig,           \* EmailServerMonitor.config: list lengths and webhook_url
    mode,              \* what main() was asked for: "once", "help" or "continuous"
    exitCode,          \* exit status of the monitor process, -1 while it runs
    mpc,               \* position of the monitor
    cycles,            \* iterations of run_continuous_monitoring started
    prevHadAlerts,     \* self.alerts was not empty when the loop last cleared it
    alerts,            \* self.alerts
    status,            \* self.status
    probeIdx,          \* index of the item of the current "for" loop of run_health_check
    lastProbe,         \* the probe run_health_check called last, and whether it raised inside
    probesRun,         \* probe calls made by this run_health_check
    posted,            \* the POSTs to the webhook of this cycle: answered 200 or not
    saved,             \* save_status_report was called with this snapshot
    reportWritten,     \* that call wrote its report file without an error
    reportFiles,       \* timestamps naming the health_report_*.json files
    now,               \* datetime.now(), in seconds
    saves,             \* save_status_report calls made one after the other
    \* ---- load_config of the monitor and of the orchestrator
    cfgDoc,            \* the configuration file: whether it exists and its keys
    loadedConfig,      \* the dictionary load_config returned
    lpc,               \* position of the program that loads its configuration
    lexit,             \* exit status of that program, -1 while it runs
    \* ---- DNSManager of the enhanced configurator
    domain,            \* self.domain
    mxAnswer,          \* what "dig +short MX <domain>" prints, or that it raised
    nsAnswer,          \* what "dig +short NS <domain>" prints, or that it raised
    current_mx,        \* self.current_mx
    dns_provider,      \* self.dns_provider
    conflicts,         \* self.conflicts
    suggestions,       \* the calls of suggest_dns_configuration: argument and result
    dpc,               \* position of analyze_dns and its caller
    \* ---- EnhancedEmailConfigurator.run
    cfgFile,           \* the configuration file: how reading it ends and its domains
    domains,           \* number of entries of self.domains
    configurator_ip,   \* self.server_ip of the configurator
    dns_managers,      \* per analysed domain, in order: has_conflicts() of its DNSManager
    response,          \* the answer typed at the confirmation prompt
    created_accounts,  \* length of self.email_accounts of the configurator
    outputWritten,     \* generate_output_files created its directory or a file in it
    rpc                \* position of EnhancedEmailConfigurator.run

sshVars == <<sshTimeout, sshElapsed, sshAttempts, sshResult>>

dnsPollVars == <<dnsTimeout, dnsElapsed, dnsAttempts, dnsResult>>

provisionVars == <<createCalls, getStatus, pubLeft>>

dnsVars == <<recIdx, dnsSubmitted, dnsFailed>>

mailVars == <<mailIdx, executed, mailActionFailed>>

accountVars == <<accIdx, domainRowOk, domainRows, unpersisted, email_accounts>>

jobVars == <<config, pc, stage, vps_ip, ssh_client, sessionOpen, test_results,
             result, domIdx, reportCount, reportStarted, bootstrapSeen>>

faultVars == <<callFailed, accountFaults>>

healthVars == <<alerts, status, probeIdx, lastProbe, probesRun, posted, saved,
                reportWritten>>

reportVars == <<reportFiles, now, saves>>

monitorVars == <<mconfig, mode, exitCode, mpc, cycles, prevHadAlerts, healthVars,
                 reportVars>>

loaderVars == <<cfgDoc, loadedConfig, lpc, lexit>>

managerVars == <<domain, mxAnswer, nsAnswer, current_mx, dns_provider, conflicts,
                 suggestions, dpc>>

configuratorVars == <<cfgFile, domains, configurator_ip, dns_managers, response,
                      created_accounts, outputWritten, rpc>>

toolVars == <<loaderVars, managerVars, configuratorVars>>

vars == <<jobVars, provisionVars, sshVars, dnsVars, mailVars, accountVars, dnsPollVars,
          faultVars, monitorVars, toolVars>>

---------------------------------------------------------------------------
(* Bounds of the model *)

MaxDomains == 3

MaxEmails == 3

MaxPublicNets == 2

MaxPollTimeout == 25

MaxProbes == 1

MaxCycles == 2

MaxSaves == 3

(* lines of the two dig answers of one analysis, together *)
MaxDigLines == 2

(* calls of suggest_dns_configuration on one DNSManager *)
MaxSuggestCalls == 2

(* Program constants *)

DISK_THRESHOLD == 90

MEMORY_THRESHOLD == 90

(* thresholds['load_average'] = 5.0, in hundredths *)
LOAD_THRESHOLD == 500

QUEUE_THRESHOLD == 100

REPORTS_KEPT == 100

SSH_DEFAULT_TIMEOUT == 300

SSH_CONNECT_TIMEOUT == 10

SSH_RETRY_SLEEP == 10

DNS_DEFAULT_TIMEOUT == 1800

DIG_TIMEOUT == 10

DNS_RETRY_SLEEP == 30

DNS_ERROR_SLEEP == 60

---------------------------------------------------------------------------
(* Configuration *)

VpsProviders == {"digitalocean", "vultr", "hetzner"}

DnsProviders == {"cloudflare", "route53"}

Configs ==
    [ vps_provider : VpsProviders,
      dns_provider : DnsProviders,
      numDomains : 0..MaxDomains,
      emails_per_domain : 0..MaxEmails ]

Domains == 1..config.numDomains

(* records of create_cloudflare_dns_records, in the order they are posted *)
DnsRecords ==
    << [type |-> "A",     name |-> "mail",         content |-> "vps_ip"],
       [type |-> "MX",    name |-> "@",            content |-> "mail.domain"],
       [type |-> "TXT",   name |-> "@",            content |-> "spf"],
       [type |-> "TXT",   name |-> "_dmarc",       content |-> "dmarc"],
       [type |-> "CNAME", name |-> "autoconfig",   content |-> "mail.domain"],
       [type |-> "CNAME", name |-> "autodiscover", content |-> "mail.domain"] >>

(* the remote operations of setup_mail_server after wait_for_cloud_init,
   in the order the code issues them *)
PostfixSteps ==
    << [fn |-> "configure_postfix", op |-> "upload", arg |-> "/etc/postfix/main.cf"],
       [fn |-> "configure_postfix", op |-> "upload", arg |-> "/etc/postfix/mysql-virtual-mailbox-domains.cf"],
       [fn |-> "configure_postfix", op |-> "upload", arg |-> "/etc/postfix/mysql-virtual-mailbox-maps.cf"],
       [fn |-> "configure_postfix", op |-> "upload", arg |-> "/etc/postfix/mysql-virtual-alias-maps.cf"],
       [fn |-> "configure_postfix", op |-> "exec", arg |-> "chmod 640 /etc/postfix/mysql-*.cf"],
       [fn |-> "configure_postfix", op |-> "exec", arg |-> "chown root:postfix /etc/postfix/mysql-*.cf"],
       [fn |-> "configure_postfix", op |-> "exec", arg |-> "systemctl restart postfix"] >>

DovecotSteps ==
    << [fn |-> "configure_dovecot", op |-> "upload", arg |-> "/etc/dovecot/dovecot.conf"],
       [fn |-> "configure_dovecot", op |-> "upload", arg |-> "/etc/dovecot/dovecot-sql.conf.ext"],
       [fn |-> "configure_dovecot", op |-> "exec", arg |-> "groupadd -g 5000 vmail"],
       [fn |-> "configure_dovecot", op |-> "exec", arg |-> "useradd -g vmail -u 5000 vmail -d /var/mail"],
       [fn |-> "configure_dovecot", op |-> "exec", arg |-> "mkdir -p /var/mail/vhosts"],
       [fn |-> "configure_dovecot", op |-> "exec", arg |-> "chown -R vmail:vmail /var/mail"],
       [fn |-> "configure_dovecot", op |-> "exec", arg |-> "chown -R vmail:dovecot /etc/dovecot"],
       [fn |-> "configure_dovecot", op |-> "exec", arg |-> "chmod -R o-rwx /etc/dovecot"],
       [fn |-> "configure_dovecot", op |-> "exec", arg |-> "systemctl restart dovecot"] >>

SslSteps ==
    << [fn |-> "setup_ssl_certificates", op |-> "exec", arg |-> "systemctl stop nginx"],
       [fn |-> "setup_ssl_certificates", op |-> "exec", arg |-> "certbot certonly"],
       [fn |-> "setup_ssl_certificates", op |-> "exec", arg |-> "systemctl start nginx"],
       [fn |-> "setup_ssl_certificates", op |-> "exec", arg |-> "systemctl enable certbot.timer"] >>

DatabaseSteps ==
    << [fn |-> "create_mail_database_structure", op |-> "upload", arg |-> "/tmp/mail_structure.sql"],
       [fn |-> "create_mail_database_structure", op |-> "exec", arg |-> "mysql < /tmp/mail_structure.sql"] >>

(* setup_mail_server: Postfix, then Dovecot, then certificates, then database *)
MailSteps == PostfixSteps \o DovecotSteps \o SslSteps \o DatabaseSteps

(* what a remote operation can do: an upload succeeds or raises; a command
   is started ("ok": exit status 0, "nonzero": exit status other than 0,
   which exec_command does not report) or the transport raises *)
Outcomes(op) == IF op = "upload" THEN {"ok", "exc"} ELSE {"ok", "nonzero", "exc"}

(* run_full_automation has not returned / run_comprehensive_tests has not run *)
NoResult == [success |-> "none", error |-> "none"]

NoTestResults ==
    [smtp_connectivity |-> "none", imap_connectivity |-> "none",
     ssl_certificates |-> "none", dns_propagation |-> "none"]

---------------------------------------------------------------------------
(* The health monitor: configuration and the state after __init__ *)

(* load_config: the lists of services, ports and test accounts are given by
   their lengths; thresholds are the defaults; webhook_url is set or empty *)
MonitorConfigs ==
    { c \in [ nServices : 0..MaxProbes, nPorts : 0..MaxProbes,
              nAccounts : 0..MaxProbes, webhook : BOOLEAN ] :
        c.nServices + c.nPorts + c.nAccounts <= MaxProbes }

(* a key of the dictionary check_system_resources returns: present with
   its value, or missing *)
Sampled(value) == [present |-> TRUE, value |-> value]

NotSampled == [present |-> FALSE, value |-> 0]

NoResources ==
    [disk_usage |-> NotSampled, memory_usage |-> NotSampled, load_average |-> NotSampled]

(* self.status = {} *)
EmptyStatus ==
    [ services |-> << >>, ports |-> << >>, resources |-> NoResources, mail_queue |-> 0,
      ssl_valid |-> FALSE, email_tests |-> << >>, overall_status |-> "none",
      alerts |-> << >> ]

NoProbe == [kind |-> "none", idx |-> 0, errored |-> FALSE]

(* EmailServerMonitor.__init__: self.status = {}, self.alerts = [] *)
MonitorConstructed ==
    /\ cycles = 0
    /\ prevHadAlerts = FALSE
    /\ alerts = << >>
    /\ status = EmptyStatus
    /\ probeIdx = 1
    /\ lastProbe = NoProbe
    /\ probesRun = 0
    /\ posted = << >>
    /\ saved = FALSE
    /\ reportWritten = FALSE
    /\ saves = 0

(* no monitor is running *)
MonitorIdle ==
    /\ mconfig = [nServices |-> 0, nPorts |-> 0, nAccounts |-> 0, webhook |-> FALSE]
    /\ mode = "none"
    /\ exitCode = -1
    /\ mpc = "off"
    /\ reportFiles = {}
    /\ now = 0
    /\ MonitorConstructed

(* no configuration is being loaded *)
NoDocument == [exists |-> FALSE, keys |-> {}, thresholds |-> {}]

NoConfig == [keys |-> {}, defaults |-> {}, thresholds |-> {}]

LoaderIdle ==
    /\ cfgDoc = NoDocument
    /\ loadedConfig = NoConfig
    /\ lpc = "off"
    /\ lexit = -1

(* a dig answer: the lines printed, or an exception (dig missing, timeout) *)
NoAnswer == [error |-> FALSE, lines |-> << >>]

(* DNSManager.__init__ *)
ManagerConstructed ==
    /\ current_mx = << >>
    /\ dns_provider = "None"
    /\ conflicts = << >>
    /\ suggestions = << >>

(* no DNSManager is in use *)
ManagerIdle ==
    /\ domain = "example.com"
    /\ mxAnswer = NoAnswer
    /\ nsAnswer = NoAnswer
    /\ ManagerConstructed
    /\ dpc = "off"

(* EnhancedEmailConfigurator.__init__ *)
ConfiguratorConstructed ==
    /\ domains = 0
    /\ configurator_ip = "None"
    /\ dns_managers = << >>
    /\ response = "none"
    /\ created_accounts = 0
    /\ outputWritten = FALSE

NoFile == [kind |-> "missing", domains |-> 0]

(* no configurator is running *)
ConfiguratorIdle ==
    /\ cfgFile = NoFile
    /\ ConfiguratorConstructed
    /\ rpc = "off"

ToolsIdle == LoaderIdle /\ ManagerIdle /\ ConfiguratorIdle

---------------------------------------------------------------------------
Init ==
    /\ config \in Configs
    /\ pc = "start"
    /\ stage = "Requested"
    /\ vps_ip = "None"
    /\ ssh_client = "None"
    /\ sessionOpen = FALSE
    /\ email_accounts = << >>
    /\ test_results = NoTestResults
    /\ result = NoResult
    /\ createCalls = 0
    /\ getStatus = 0
    /\ pubLeft = 0
    /\ sshTimeout = SSH_DEFAULT_TIMEOUT
    /\ sshElapsed = 0
    /\ sshAttempts = 0
    /\ sshResult = "none"
    /\ domIdx = 1
    /\ recIdx = 1
    /\ dnsSubmitted = {}
    /\ dnsFailed = FALSE
    /\ mailIdx = 1
    /\ executed = {}
    /\ mailActionFailed = FALSE
    /\ accIdx = 0
    /\ domainRowOk = FALSE
    /\ domainRows = {}
    /\ unpersisted = FALSE
    /\ reportCount = 0
    /\ reportStarted = FALSE
    /\ callFailed = FALSE
    /\ accountFaults = 0
    /\ bootstrapSeen = FALSE
    /\ dnsTimeout = DNS_DEFAULT_TIMEOUT
    /\ dnsElapsed = 0
    /\ dnsAttempts = 0
    /\ dnsResult = "none"
    /\ MonitorIdle
    /\ ToolsIdle

(* the answer of a call is recorded: failed is TRUE when the call raised,
   was answered with an error, or answered that the resource is not ready *)
Fault(failed) == callFailed' = (callFailed \/ failed)

(* an exception propagates to the except clause of run_full_automation,
   which builds the failure result; the finally clause is next *)
Raise(err) ==
    /\ result' = [success |-> "False", error |-> err]
    /\ pc' = "finally"

---------------------------------------------------------------------------
(* Provisioning *)

(* provision_vps: dispatch on config['vps_provider']['name']. provision_vultr
   is not defined by the class, so "vultr" raises AttributeError. *)
ProvisionVps ==
    /\ pc = "start"
    /\ stage' = "Provisioning"
    /\ Fault(config.vps_provider # "digitalocean")
    /\ UNCHANGED accountFaults
    /\ IF config.vps_provider = "digitalocean"
         THEN pc' = "create_host" /\ UNCHANGED result
         ELSE IF config.vps_provider = "vultr"
                THEN Raise("AttributeError: provision_vultr")
                ELSE Raise("ValueError: Unsupported VPS provider")
    /\ UNCHANGED <<config, bootstrapSeen, vps_ip, ssh_client, sessionOpen, test_results, domIdx,
                   reportCount, reportStarted, provisionVars, sshVars, dnsVars, mailVars,
                   accountVars, dnsPollVars, monitorVars, toolVars>>

(* provision_digitalocean up to the response of POST /v2/droplets: 202 goes
   on to wait_for_droplet_ready, any other answer and a transport error raise *)
ProvisionDigitalocean ==
    /\ pc = "create_host"
    /\ stage' = "Provisioning"
    /\ createCalls' = createCalls + 1
    /\ \E status_code \in {202, 401, -1} :
         /\ Fault(status_code # 202)
         /\ IF status_code = 202
              THEN pc' = "get_host" /\ UNCHANGED result
              ELSE IF status_code = -1
                     THEN Raise("requests.ConnectionError")
                     ELSE Raise("Failed to create droplet")
    /\ UNCHANGED accountFaults
    /\ UNCHANGED <<config, bootstrapSeen, vps_ip, ssh_client, sessionOpen, test_results, domIdx,
                   reportCount, reportStarted, getStatus, pubLeft, sshVars, dnsVars, mailVars,
                   accountVars, dnsPollVars, monitorVars, toolVars>>

(* wait_for_ssh is entered: start_time = time.time() *)
EnterWaitForSsh ==
    /\ sshTimeout' = SSH_DEFAULT_TIMEOUT
    /\ sshElapsed' = 0
    /\ sshAttempts' = 0
    /\ sshResult' = "none"

(* wait_for_droplet_ready, one iteration of "while True" up to the sleep:
   GET the droplet; with status 200, droplet status 'active' and a public
   v4 network, wait_for_ssh is called for the first public network; in every
   other case (another status code, not active, no public network) the loop
   sleeps and repeats.  A transport error of requests.get raises. *)
WaitForDropletReady ==
    /\ pc = "get_host"
    /\ stage' = "Provisioning"
    /\ \E status_code \in {200, 500, -1}, active \in BOOLEAN, nPublic \in 0..MaxPublicNets :
         /\ Fault(~(status_code = 200 /\ active /\ nPublic > 0))
         /\ IF status_code = -1
              THEN /\ Raise("requests.ConnectionError")
                   /\ UNCHANGED <<getStatus, pubLeft, sshVars>>
              ELSE /\ getStatus' = status_code
                   /\ UNCHANGED result
                   /\ IF status_code = 200 /\ active /\ nPublic > 0
                        THEN /\ pubLeft' = nPublic - 1
                             /\ EnterWaitForSsh
                             /\ pc' = "wait_ssh"
                        ELSE /\ pc' = "droplet_sleep"
                             /\ UNCHANGED <<pubLeft, sshVars>>
    /\ UNCHANGED accountFaults
    /\ UNCHANGED <<config, bootstrapSeen, vps_ip, ssh_client, sessionOpen, test_results, domIdx,
                   reportCount, reportStarted, createCalls, dnsVars, mailVars, accountVars,
                   dnsPollVars, monitorVars, toolVars>>

(* wait_for_droplet_ready: time.sleep(30), then the next iteration *)
DropletSleep ==
    /\ pc = "droplet_sleep"
    /\ stage' = "Provisioning"
    /\ pc' = "get_host"
    /\ UNCHANGED faultVars
    /\ UNCHANGED <<config, bootstrapSeen, vps_ip, ssh_client, sessionOpen, test_results, result,
                   domIdx, reportCount, reportStarted, provisionVars, sshVars, dnsVars, mailVars,
                   accountVars, dnsPollVars, monitorVars, toolVars>>

---------------------------------------------------------------------------
(* wait_for_ssh *)

(* the loop condition: time.time() - start_time < timeout *)
SshBudgetLeft_Mut == sshAttempts < 1

SshBudgetLeft == sshElapsed < sshTimeout

(* one iteration of the loop: client.connect either succeeds (return True),
   or is refused (at once) or times out (after the connect timeout); the
   bare except then sleeps before the next iteration *)
SshAttempt ==
    /\ sshResult = "none"
    /\ SshBudgetLeft
    /\ sshAttempts' = sshAttempts + 1
    /\ \E outcome \in {"connected", "refused", "timeout"} :
         CASE outcome = "connected" ->
                /\ sshResult' = "True"
                /\ UNCHANGED sshElapsed
           [] outcome = "refused" ->
                /\ sshElapsed' = sshElapsed + SSH_RETRY_SLEEP
                /\ UNCHANGED sshResult
           [] outcome = "timeout" ->
                /\ sshElapsed' = sshElapsed + SSH_CONNECT_TIMEOUT + SSH_RETRY_SLEEP
                /\ UNCHANGED sshResult
    /\ UNCHANGED sshTimeout

(* the loop condition is false: return False *)
SshGiveUp ==
    /\ sshResult = "none"
    /\ ~SshBudgetLeft
    /\ sshResult' = "False"
    /\ UNCHANGED <<sshTimeout, sshElapsed, sshAttempts>>

(* wait_for_ssh as called by wait_for_droplet_ready *)
WaitForSsh ==
    /\ pc = "wait_ssh"
    /\ stage' = "AwaitingSSH"
    /\ SshAttempt \/ SshGiveUp
    /\ Fault(sshResult' # "True")
    /\ UNCHANGED accountFaults
    /\ UNCHANGED <<config, bootstrapSeen, pc, vps_ip, ssh_client, sessionOpen, test_results, result,
                   domIdx, reportCount, reportStarted, provisionVars, dnsVars, mailVars,
                   accountVars, dnsPollVars, monitorVars, toolVars>>

(* wait_for_droplet_ready after wait_for_ssh returned: True returns the
   address, which provision_digitalocean stores in self.vps_ip; False goes on
   to the next public network, and after the last one to the sleep and the
   next GET.  SshReady is "if self.wait_for_ssh(ip)". *)
SshReady_Mut(res) == res \in {"True", "False"}

SshReady(res) == res = "True"

SshReturned ==
    /\ pc = "wait_ssh"
    /\ sshResult \in {"True", "False"}
    /\ UNCHANGED faultVars
    /\ IF SshReady(sshResult)
         THEN /\ vps_ip' = "ip"
              /\ pc' = "configure_dns"
              /\ sshElapsed' = 0 /\ sshAttempts' = 0 /\ sshResult' = "none"
              /\ UNCHANGED <<pubLeft, sshTimeout>>
         ELSE /\ UNCHANGED vps_ip
              /\ IF pubLeft > 0
                   THEN /\ pubLeft' = pubLeft - 1
                        /\ EnterWaitForSsh
                        /\ UNCHANGED pc
                   ELSE /\ pc' = "droplet_sleep"
                        /\ UNCHANGED <<pubLeft, sshVars>>
    /\ UNCHANGED <<config, bootstrapSeen, stage, ssh_client, sessionOpen, test_results, result,
                   domIdx, reportCount, reportStarted, createCalls, getStatus, dnsVars, mailVars,
                   accountVars, dnsPollVars, monitorVars, toolVars>>

---------------------------------------------------------------------------
(* ConfiguringDNS *)

(* the domains for which the pipeline has run DNSManager.analyze_dns:
   vps_orchestrator.py does not import email_configurator_enhanced, and
   configure_dns_records, create_dns_records_for_domain and
   create_cloudflare_dns_records post the records without any analysis *)
AnalyzedDomains == {}

(* configure_dns_records and create_dns_records_for_domain: the head of
   "for domain in self.config['domains']".  Only "cloudflare" is implemented;
   for any other DNS provider a warning is printed and the loop goes on. *)
ConfigureDnsRecords ==
    /\ pc = "configure_dns"
    /\ stage' = "ConfiguringDNS"
    /\ UNCHANGED faultVars
    /\ IF domIdx > config.numDomains
         THEN /\ pc' = "connect_ssh"
              /\ domIdx' = 1
              /\ UNCHANGED recIdx
         ELSE IF config.dns_provider = "cloudflare"
                THEN /\ pc' = "dns_records"
                     /\ recIdx' = 1
                     /\ UNCHANGED domIdx
                ELSE /\ domIdx' = domIdx + 1
                     /\ UNCHANGED <<pc, recIdx>>
    /\ UNCHANGED <<config, bootstrapSeen, vps_ip, ssh_client, sessionOpen, test_results, result,
                   reportCount, reportStarted, provisionVars, sshVars, dnsSubmitted, dnsFailed,
                   mailVars, accountVars, dnsPollVars, monitorVars, toolVars>>

(* create_cloudflare_dns_records, one iteration of "for record in records":
   the record is posted; status 200 prints success, any other status prints
   the failure, and the loop goes on; a transport error of requests.post
   raises *)
CreateCloudflareDnsRecords ==
    /\ pc = "dns_records"
    /\ stage' = "ConfiguringDNS"
    /\ \E status_code \in {200, 400, -1} :
         /\ Fault(status_code # 200)
         /\ IF status_code = -1
              THEN /\ Raise("requests.ConnectionError")
                   /\ UNCHANGED <<domIdx, dnsVars>>
              ELSE /\ dnsSubmitted' = dnsSubmitted \cup {<<domIdx, recIdx>>}
                   /\ dnsFailed' = (dnsFailed \/ status_code # 200)
                   /\ UNCHANGED result
                   /\ IF recIdx = Len(DnsRecords)
                        THEN /\ domIdx' = domIdx + 1
                             /\ pc' = "configure_dns"
                             /\ UNCHANGED recIdx
                        ELSE /\ recIdx' = recIdx + 1
                             /\ UNCHANGED <<pc, domIdx>>
    /\ UNCHANGED accountFaults
    /\ UNCHANGED <<config, bootstrapSeen, vps_ip, ssh_client, sessionOpen, test_results,
                   reportCount, reportStarted, provisionVars, sshVars, mailVars, accountVars,
                   dnsPollVars, monitorVars, toolVars>>

---------------------------------------------------------------------------
(* setup_mail_server *)

(* connect_ssh: self.ssh_client is assigned before connect; connect opens
   the transport and authenticates, and raises when the host refuses the
   connection (no transport) or the authentication (transport left open) *)
ConnectSsh ==
    /\ pc = "connect_ssh"
    /\ stage' = "AwaitingBootstrap"
    /\ ssh_client' = "SSHClient"
    /\ UNCHANGED accountFaults
    /\ \E outcome \in {"connected", "auth_failed", "refused"} :
         /\ Fault(outcome # "connected")
         /\ CASE outcome = "connected" ->
                /\ sessionOpen' = TRUE
                /\ pc' = "cloud_init"
                /\ UNCHANGED result
           [] outcome = "auth_failed" ->
                /\ sessionOpen' = TRUE
                /\ Raise("paramiko.AuthenticationException")
           [] outcome = "refused" ->
                /\ UNCHANGED sessionOpen
                /\ Raise("NoValidConnectionsError")
    /\ UNCHANGED <<config, bootstrapSeen, vps_ip, test_results, domIdx, reportCount, reportStarted, provisionVars,
                   sshVars, dnsVars, mailVars, accountVars, dnsPollVars, monitorVars, toolVars>>

(* wait_for_cloud_init, one iteration of "while True" up to the sleep: the
   marker test answers 'ready' (break), answers nothing (sleep, repeat), or
   exec_command raises *)
WaitForCloudInit ==
    /\ pc = "cloud_init"
    /\ stage' = "AwaitingBootstrap"
    /\ UNCHANGED accountFaults
    /\ \E outcome \in {"ready", "absent", "exc"} :
         /\ Fault(outcome # "ready")
         /\ bootstrapSeen' = (outcome = "ready")
         /\ CASE outcome = "ready" -> pc' = "mail_server" /\ UNCHANGED result
           [] outcome = "absent" -> pc' = "cloud_init_sleep" /\ UNCHANGED result
           [] outcome = "exc" -> Raise("paramiko.SSHException")
    /\ UNCHANGED <<config, vps_ip, ssh_client, sessionOpen, test_results, domIdx,
                   reportCount, reportStarted, provisionVars, sshVars, dnsVars, mailVars,
                   accountVars, dnsPollVars, monitorVars, toolVars>>

(* wait_for_cloud_init: time.sleep(30), then the next iteration *)
CloudInitSleep ==
    /\ pc = "cloud_init_sleep"
    /\ stage' = "AwaitingBootstrap"
    /\ pc' = "cloud_init"
    /\ UNCHANGED faultVars
    /\ UNCHANGED <<config, bootstrapSeen, vps_ip, ssh_client, sessionOpen, test_results, result,
                   domIdx, reportCount, reportStarted, provisionVars, sshVars, dnsVars, mailVars,
                   accountVars, dnsPollVars, monitorVars, toolVars>>

(* the next remote operation of setup_mail_server, when it belongs to
   function fn: upload_file_content raises when the transfer fails;
   exec_command only starts the command, so its exit status is never read
   and a command that exits non-zero lets the sequence go on.
   configure_postfix and configure_dovecot first read
   self.config['domains'][0], an IndexError with no domain. *)
MailServerStep(fn) ==
    /\ pc = "mail_server"
    /\ mailIdx <= Len(MailSteps)
    /\ MailSteps[mailIdx].fn = fn
    /\ stage' = "ConfiguringMailServer"
    /\ UNCHANGED accountFaults
    /\ IF config.numDomains = 0
         THEN /\ Raise("IndexError")
              /\ UNCHANGED <<mailVars, domIdx, callFailed>>
         ELSE \E outcome \in Outcomes(MailSteps[mailIdx].op) :
                IF outcome = "exc"
                  THEN /\ Raise("paramiko.SSHException")
                       /\ Fault(TRUE)
                       /\ UNCHANGED <<mailVars, domIdx>>
                  ELSE /\ Fault(outcome # "ok")
                       /\ executed' = executed \cup {MailSteps[mailIdx].arg}
                       /\ mailActionFailed' = (mailActionFailed \/ outcome = "nonzero")
                       /\ mailIdx' = mailIdx + 1
                       /\ UNCHANGED result
                       /\ IF mailIdx = Len(MailSteps)
                            THEN pc' = "create_accounts" /\ domIdx' = 1
                            ELSE UNCHANGED <<pc, domIdx>>
    /\ UNCHANGED <<config, bootstrapSeen, vps_ip, ssh_client, sessionOpen, test_results,
                   reportCount, reportStarted, provisionVars, sshVars, dnsVars, accountVars,
                   dnsPollVars, monitorVars, toolVars>>

ConfigurePostfix == MailServerStep("configure_postfix")

ConfigureDovecot == MailServerStep("configure_dovecot")

SetupSslCertificates == MailServerStep("setup_ssl_certificates")

CreateMailDatabaseStructure == MailServerStep("create_mail_database_structure")

---------------------------------------------------------------------------
(* CreatingAccounts *)

(* the INSERT IGNORE INTO mailserver.domains of domain d has been handed to
   exec_command: d joins the domains whose row insert was issued *)
DomainRowsAfterInsert_Mut(rows, d) == rows

DomainRowsAfterInsert(rows, d) == rows \cup {d}

(* create_email_accounts, the head of "for domain": after the last domain
   the function returns; otherwise the domain row is inserted (the exit
   status of the command is not read) and the inner loop starts *)
CreateEmailAccounts ==
    /\ pc = "create_accounts"
    /\ stage' = "CreatingAccounts"
    /\ IF domIdx > config.numDomains
         THEN /\ pc' = "run_tests"
              /\ UNCHANGED <<domIdx, accIdx, domainRowOk, domainRows, result, callFailed>>
         ELSE \E outcome \in Outcomes("exec") :
                IF outcome = "exc"
                  THEN /\ Raise("paramiko.SSHException")
                       /\ Fault(TRUE)
                       /\ UNCHANGED <<domIdx, accIdx, domainRowOk, domainRows>>
                  ELSE /\ Fault(outcome # "ok")
                       /\ domainRowOk' = (outcome = "ok")
                       /\ domainRows' = DomainRowsAfterInsert(domainRows, domIdx)
                       /\ accIdx' = 0
                       /\ UNCHANGED result
                       /\ IF config.emails_per_domain > 0
                            THEN pc' = "create_account" /\ UNCHANGED domIdx
                            ELSE domIdx' = domIdx + 1 /\ UNCHANGED pc
    /\ UNCHANGED <<config, bootstrapSeen, vps_ip, ssh_client, sessionOpen, test_results,
                   reportCount, reportStarted, unpersisted, email_accounts, provisionVars, sshVars,
                   dnsVars, mailVars, dnsPollVars, accountFaults, monitorVars, toolVars>>

(* "for i in range(emails_per_domain)": iteration i is the last one *)
LastAccountOfDomain_Mut(i) == i + 1 >= config.emails_per_domain - 1

LastAccountOfDomain(i) == i + 1 >= config.emails_per_domain

(* one iteration of "for i in range(emails_per_domain)":
   create_single_email_account issues its four remote commands (hash, user
   insert, mkdir, chown) and returns the account, which is appended.
   "nonzero": one of the commands exited non-zero, which is not read.  The
   user row is inserted by INSERT ... SELECT id FROM domains, so it exists
   only when the commands succeeded and the domain row exists. *)
CreateSingleEmailAccount ==
    /\ pc = "create_account"
    /\ stage' = "CreatingAccounts"
    /\ UNCHANGED callFailed
    /\ \E outcome \in Outcomes("exec") :
         /\ accountFaults' = IF outcome = "ok" THEN accountFaults ELSE accountFaults + 1
         /\ IF outcome = "exc"
           THEN /\ Raise("paramiko.SSHException")
                /\ UNCHANGED <<domIdx, accIdx, unpersisted, email_accounts>>
           ELSE /\ email_accounts' = Append(email_accounts, [domain |-> domIdx])
                /\ unpersisted' = (unpersisted \/ ~(outcome = "ok" /\ domainRowOk))
                /\ accIdx' = accIdx + 1
                /\ UNCHANGED result
                /\ IF LastAccountOfDomain(accIdx)
                     THEN domIdx' = domIdx + 1 /\ pc' = "create_accounts"
                     ELSE UNCHANGED <<pc, domIdx>>
    /\ UNCHANGED <<config, bootstrapSeen, vps_ip, ssh_client, sessionOpen, test_results,
                   reportCount, reportStarted, domainRowOk, domainRows, provisionVars, sshVars, dnsVars,
                   mailVars, dnsPollVars, monitorVars, toolVars>>

---------------------------------------------------------------------------
(* Verifying and reporting *)

(* test_smtp_connectivity: "FAIL" with no account, else PASS / FAIL by the
   command's stderr, ERROR when the call raises *)
SmtpOutcomes == IF email_accounts = << >> THEN {"FAIL"} ELSE {"PASS", "FAIL", "ERROR"}

(* test_ssl_certificates *)
SslOutcomes == {"PASS", "FAIL", "ERROR"}

(* run_comprehensive_tests returns test_results to run_full_automation,
   which goes on to generate_final_report whatever the results are *)
AfterTests_Mut(results) ==
    IF "ERROR" \in {results.smtp_connectivity, results.ssl_certificates}
      THEN "finally" ELSE "report"

AfterTests(results) == "report"

(* run_comprehensive_tests: the four checks; test_imap_connectivity and
   test_dns_propagation are placeholders returning "PASS" *)
RunComprehensiveTests ==
    /\ pc = "run_tests"
    /\ stage' = "Verifying"
    /\ UNCHANGED faultVars
    /\ \E smtp \in SmtpOutcomes, ssl \in SslOutcomes :
         test_results' = [smtp_connectivity |-> smtp, imap_connectivity |-> "PASS",
                          ssl_certificates |-> ssl, dns_propagation |-> "PASS"]
    /\ pc' = AfterTests(test_results')
    /\ UNCHANGED <<config, bootstrapSeen, vps_ip, ssh_client, sessionOpen, result, domIdx,
                   reportCount, reportStarted, provisionVars, sshVars, dnsVars, mailVars,
                   accountVars, dnsPollVars, monitorVars, toolVars>>

(* generate_final_report and the success return of run_full_automation:
   report_dir.mkdir may raise OSError (nothing is written); the directory
   is created and opening or writing deployment_report.json or
   email_credentials.csv raises OSError (disk full), leaving what was
   written so far; or both files are written and the path is returned *)
GenerateFinalReport ==
    /\ pc = "report"
    /\ UNCHANGED accountFaults
    /\ \E outcome \in {"written", "mkdir_failed", "write_failed"} :
         /\ Fault(outcome # "written")
         /\ reportStarted' = (outcome # "mkdir_failed")
         /\ IF outcome = "written"
           THEN /\ reportCount' = reportCount + 1
                /\ result' = [success |-> "True", error |-> "none"]
                /\ pc' = "finally"
           ELSE /\ Raise("OSError")
                /\ UNCHANGED reportCount
    /\ UNCHANGED <<config, bootstrapSeen, stage, vps_ip, ssh_client, sessionOpen, test_results,
                   domIdx, provisionVars, sshVars, dnsVars, mailVars, accountVars,
                   dnsPollVars, monitorVars, toolVars>>

(* cleanup_ssh: close the client if there is one *)
SessionAfterCleanup_Mut == sessionOpen /\ result.success = "False"

SessionAfterCleanup == IF ssh_client # "None" THEN FALSE ELSE sessionOpen

(* the finally clause of run_full_automation, then its return: the job is
   Reported when the result is the success one, Failed otherwise *)
CleanupSsh ==
    /\ pc = "finally"
    /\ sessionOpen' = SessionAfterCleanup
    /\ UNCHANGED faultVars
    /\ pc' = "returned"
    /\ stage' = IF result.success = "True" THEN "Reported" ELSE "Failed"
    /\ UNCHANGED <<config, bootstrapSeen, vps_ip, ssh_client, test_results, result, domIdx,
                   reportCount, reportStarted, provisionVars, sshVars, dnsVars, mailVars,
                   accountVars, dnsPollVars, monitorVars, toolVars>>

---------------------------------------------------------------------------
Next ==
    \/ ProvisionVps
    \/ ProvisionDigitalocean
    \/ WaitForDropletReady
    \/ DropletSleep
    \/ WaitForSsh
    \/ SshReturned
    \/ ConfigureDnsRecords
    \/ CreateCloudflareDnsRecords
    \/ ConnectSsh
    \/ WaitForCloudInit
    \/ CloudInitSleep
    \/ ConfigurePostfix
    \/ ConfigureDovecot
    \/ SetupSslCertificates
    \/ CreateMailDatabaseStructure
    \/ CreateEmailAccounts
    \/ CreateSingleEmailAccount
    \/ RunComprehensiveTests
    \/ GenerateFinalReport
    \/ CleanupSsh

Spec == Init /\ [][Next]_vars

(* the pipeline is one sequential flow that takes its next step whenever it
   has one: it never stops in the middle of run_full_automation *)
FairSpec == Spec /\ WF_vars(Next)

---------------------------------------------------------------------------
(* The readiness polls on their own, for arbitrary timeouts *)

(* wait_for_dns_propagation, the loop condition *)
DnsBudgetLeft == dnsElapsed < dnsTimeout

(* wait_for_dns_propagation, one iteration: dig answers with an MX record
   naming mail.<domain> (return True); answers without one, at once or just
   within its time limit (sleep 30); or subprocess.run raises, at once when
   dig cannot be run or at the time limit (sleep 60) *)
DnsAttempt ==
    /\ dnsResult = "none"
    /\ DnsBudgetLeft
    /\ dnsAttempts' = dnsAttempts + 1
    /\ \E outcome \in {"propagated", "not_yet", "error"}, took \in {0, DIG_TIMEOUT} :
         CASE outcome = "propagated" ->
                /\ dnsResult' = "True"
                /\ UNCHANGED dnsElapsed
           [] outcome = "not_yet" ->
                /\ dnsElapsed' = dnsElapsed + took + DNS_RETRY_SLEEP
                /\ UNCHANGED dnsResult
           [] outcome = "error" ->
                /\ dnsElapsed' = dnsElapsed + took + DNS_ERROR_SLEEP
                /\ UNCHANGED dnsResult
    /\ UNCHANGED dnsTimeout

(* the loop condition is false: warn and return False *)
DnsGiveUp ==
    /\ dnsResult = "none"
    /\ ~DnsBudgetLeft
    /\ dnsResult' = "False"
    /\ UNCHANGED <<dnsTimeout, dnsElapsed, dnsAttempts>>

SshPollTimeouts == {3 * t : t \in 0..MaxPollTimeout} \cup {SSH_DEFAULT_TIMEOUT}

DnsPollTimeouts == {7 * t : t \in 0..MaxPollTimeout} \cup {DNS_DEFAULT_TIMEOUT}

PollConfig ==
    [vps_provider |-> "digitalocean", dns_provider |-> "cloudflare",
     numDomains |-> 1, emails_per_domain |-> 1]

PollInit ==
    /\ config = PollConfig
    /\ pc \in {"poll_ssh", "poll_dns"}
    /\ stage = "Requested"
    /\ vps_ip = "None"
    /\ ssh_client = "None"
    /\ sessionOpen = FALSE
    /\ email_accounts = << >>
    /\ test_results = NoTestResults
    /\ result = NoResult
    /\ createCalls = 0
    /\ getStatus = 0
    /\ pubLeft = 0
    /\ sshTimeout \in (IF pc = "poll_ssh" THEN SshPollTimeouts ELSE {SSH_DEFAULT_TIMEOUT})
    /\ sshElapsed = 0
    /\ sshAttempts = 0
    /\ sshResult = "none"
    /\ domIdx = 1
    /\ recIdx = 1
    /\ dnsSubmitted = {}
    /\ dnsFailed = FALSE
    /\ mailIdx = 1
    /\ executed = {}
    /\ mailActionFailed = FALSE
    /\ accIdx = 0
    /\ domainRowOk = FALSE
    /\ domainRows = {}
    /\ unpersisted = FALSE
    /\ reportCount = 0
    /\ reportStarted = FALSE
    /\ callFailed = FALSE
    /\ accountFaults = 0
    /\ bootstrapSeen = FALSE
    /\ dnsTimeout \in (IF pc = "poll_dns" THEN DnsPollTimeouts ELSE {DNS_DEFAULT_TIMEOUT})
    /\ dnsElapsed = 0
    /\ dnsAttempts = 0
    /\ dnsResult = "none"
    /\ MonitorIdle
    /\ ToolsIdle

(* wait_for_ssh(ip, timeout) called on its own *)
PollWaitForSsh ==
    /\ pc = "poll_ssh"
    /\ SshAttempt \/ SshGiveUp
    /\ UNCHANGED <<jobVars, provisionVars, dnsVars, mailVars, accountVars, dnsPollVars,
                   faultVars, monitorVars, toolVars>>

(* wait_for_dns_propagation(domain, timeout) called on its own *)
WaitForDnsPropagation ==
    /\ pc = "poll_dns"
    /\ DnsAttempt \/ DnsGiveUp
    /\ UNCHANGED <<jobVars, provisionVars, sshVars, dnsVars, mailVars, accountVars,
                   faultVars, monitorVars, toolVars>>

PollNext == PollWaitForSsh \/ WaitForDnsPropagation

PollSpec == PollInit /\ [][PollNext]_vars

(* a poll is a sequential loop: it takes its next step whenever it has one *)
PollFairSpec == PollSpec /\ WF_vars(PollNext)

---------------------------------------------------------------------------
(* The health monitor: run_health_check *)

pipelineVars == <<jobVars, provisionVars, sshVars, dnsVars, mailVars, accountVars,
                  dnsPollVars, faultVars>>

(* no pipeline is running *)
PipelineIdle ==
    /\ config = PollConfig
    /\ pc = "off"
    /\ stage = "Requested"
    /\ vps_ip = "None"
    /\ ssh_client = "None"
    /\ sessionOpen = FALSE
    /\ email_accounts = << >>
    /\ test_results = NoTestResults
    /\ result = NoResult
    /\ createCalls = 0
    /\ getStatus = 0
    /\ pubLeft = 0
    /\ sshTimeout = SSH_DEFAULT_TIMEOUT
    /\ sshElapsed = 0
    /\ sshAttempts = 0
    /\ sshResult = "none"
    /\ domIdx = 1
    /\ recIdx = 1
    /\ dnsSubmitted = {}
    /\ dnsFailed = FALSE
    /\ mailIdx = 1
    /\ executed = {}
    /\ mailActionFailed = FALSE
    /\ accIdx = 0
    /\ domainRowOk = FALSE
    /\ domainRows = {}
    /\ unpersisted = FALSE
    /\ reportCount = 0
    /\ reportStarted = FALSE
    /\ callFailed = FALSE
    /\ accountFaults = 0
    /\ bootstrapSeen = FALSE
    /\ dnsTimeout = DNS_DEFAULT_TIMEOUT
    /\ dnsElapsed = 0
    /\ dnsAttempts = 0
    /\ dnsResult = "none"

(* an alert of self.alerts: the probe it is about and, for a service, a port
   or a test account, the index of the item in its configured list *)
Alert(kind, idx) == [kind |-> kind, idx |-> idx]

(* a probe's own "except Exception" clause: the error is logged and the
   probe returns its fallback value *)
ProbeCatches_Mut(kind) == kind # "mail_queue"

ProbeCatches(kind) == TRUE

(* the order of run_health_check: services, ports, resources, mail queue,
   certificates, test accounts, overall status; an empty list is skipped *)
AfterServices == IF mconfig.nPorts > 0 THEN "ports" ELSE "resources"

AfterHostname == IF mconfig.nServices > 0 THEN "services" ELSE AfterServices

AfterSsl == IF mconfig.nAccounts > 0 THEN "email" ELSE "classify"

(* where an exception that leaves run_health_check goes: to the "except
   Exception" clause of the loop, or, under --once, out of main() *)
Uncaught == IF mode = "once" THEN "uncaught" ELSE "loop_error"

(* a probe call has returned, or has raised out of run_health_check *)
ProbeDone(kind, idx, errored, next) ==
    /\ lastProbe' = [kind |-> kind, idx |-> idx, errored |-> errored]
    /\ probesRun' = probesRun + 1
    /\ mpc' = IF errored /\ ~ProbeCatches(kind) THEN Uncaught ELSE next

(* run_continuous_monitoring, the head of an iteration: self.alerts = [] *)
AlertsAfterClear_Mut(a) == a

AlertsAfterClear(a) == << >>

ClearAlerts ==
    /\ mpc = "loop"
    /\ cycles < MaxCycles
    /\ cycles' = cycles + 1
    /\ prevHadAlerts' = (alerts # << >>)
    /\ alerts' = AlertsAfterClear(alerts)
    /\ mpc' = "health_check"
    /\ UNCHANGED <<mconfig, mode, exitCode, status, probeIdx, lastProbe, probesRun, posted, saved, reportWritten,
                   reportVars, pipelineVars, toolVars>>

(* run_health_check, the new self.status: subprocess.run(['hostname']) is
   not guarded and raises when the command cannot be run *)
RunHealthCheck ==
    /\ mpc = "health_check"
    /\ lastProbe' = NoProbe
    /\ probesRun' = 0
    /\ probeIdx' = 1
    /\ posted' = << >>
    /\ saved' = FALSE
    /\ reportWritten' = FALSE
    /\ \E hostname \in {"ok", "exc"} :
         IF hostname = "ok"
           THEN /\ status' = [EmptyStatus EXCEPT !.overall_status = "healthy"]
                /\ mpc' = AfterHostname
           ELSE /\ UNCHANGED status
                /\ mpc' = Uncaught
    /\ UNCHANGED <<mconfig, mode, exitCode, cycles, prevHadAlerts, alerts, reportVars, pipelineVars, toolVars>>

(* one iteration of "for service in self.config['services']":
   check_service_status returns whether systemctl printed "active", and
   False when it raised *)
CheckServiceStatus ==
    /\ mpc = "services"
    /\ \E outcome \in {"active", "inactive", "error"} :
         /\ status' = [status EXCEPT !.services = Append(@, outcome = "active")]
         /\ alerts' = IF outcome = "active"
                        THEN alerts
                        ELSE Append(alerts, Alert("service", probeIdx))
         /\ ProbeDone("service", probeIdx, outcome = "error",
                      IF probeIdx = mconfig.nServices THEN AfterServices ELSE "services")
    /\ probeIdx' = IF probeIdx = mconfig.nServices THEN 1 ELSE probeIdx + 1
    /\ UNCHANGED <<mconfig, mode, exitCode, cycles, prevHadAlerts, posted, saved, reportWritten, reportVars, pipelineVars, toolVars>>

(* one iteration of "for port in self.config['ports']" *)
CheckPortConnectivity ==
    /\ mpc = "ports"
    /\ \E outcome \in {"open", "closed", "error"} :
         /\ status' = [status EXCEPT !.ports = Append(@, outcome = "open")]
         /\ alerts' = IF outcome = "open"
                        THEN alerts
                        ELSE Append(alerts, Alert("port", probeIdx))
         /\ ProbeDone("port", probeIdx, outcome = "error",
                      IF probeIdx = mconfig.nPorts THEN "resources" ELSE "ports")
    /\ probeIdx' = IF probeIdx = mconfig.nPorts THEN 1 ELSE probeIdx + 1
    /\ UNCHANGED <<mconfig, mode, exitCode, cycles, prevHadAlerts, posted, saved, reportWritten, reportVars, pipelineVars, toolVars>>

(* resources.get(key, 0) *)
ResourceGet(resources, key) ==
    IF resources[key].present THEN resources[key].value ELSE 0

(* the alerts of the three threshold checks, appended in their order *)
ResourceAlerts_Mut(resources) ==
    (IF ResourceGet(resources, "disk_usage") >= DISK_THRESHOLD
       THEN << Alert("disk_usage", 0) >> ELSE << >>)
    \o (IF ResourceGet(resources, "memory_usage") > MEMORY_THRESHOLD
          THEN << Alert("memory_usage", 0) >> ELSE << >>)
    \o (IF ResourceGet(resources, "load_average") > LOAD_THRESHOLD
          THEN << Alert("load_average", 0) >> ELSE << >>)

ResourceAlerts(resources) ==
    (IF ResourceGet(resources, "disk_usage") > DISK_THRESHOLD
       THEN << Alert("disk_usage", 0) >> ELSE << >>)
    \o (IF ResourceGet(resources, "memory_usage") > MEMORY_THRESHOLD
          THEN << Alert("memory_usage", 0) >> ELSE << >>)
    \o (IF ResourceGet(resources, "load_average") > LOAD_THRESHOLD
          THEN << Alert("load_average", 0) >> ELSE << >>)

(* check_system_resources and the threshold checks: one try block samples
   the disk (df), the memory (/proc/meminfo) and the load (/proc/loadavg) in
   this order; an error at one of them ends the sampling and the dictionary
   filled so far is returned.  The disk key is also left out when the output
   of df has no second line. *)
CheckSystemResources ==
    /\ mpc = "resources"
    /\ \E err \in {"none", "df", "meminfo", "loadavg"}, diskParsed \in BOOLEAN,
          disk \in {DISK_THRESHOLD, DISK_THRESHOLD + 1},
          mem \in {MEMORY_THRESHOLD, MEMORY_THRESHOLD + 1},
          load \in {LOAD_THRESHOLD, LOAD_THRESHOLD + 1} :
         LET resources ==
               [ disk_usage |-> IF err # "df" /\ diskParsed
                                  THEN Sampled(disk) ELSE NotSampled,
                 memory_usage |-> IF err \in {"none", "loadavg"}
                                    THEN Sampled(mem) ELSE NotSampled,
                 load_average |-> IF err = "none"
                                    THEN Sampled(load) ELSE NotSampled ]
         IN /\ status' = [status EXCEPT !.resources = resources]
            /\ alerts' = alerts \o ResourceAlerts(resources)
            /\ ProbeDone("resources", 0, err # "none", "mail_queue")
    /\ UNCHANGED <<mconfig, mode, exitCode, cycles, prevHadAlerts, probeIdx, posted, saved, reportWritten, reportVars,
                   pipelineVars, toolVars>>

(* check_mail_queue and its threshold check: the number of queued messages,
   or -1 when postqueue could not be run *)
CheckMailQueue ==
    /\ mpc = "mail_queue"
    /\ \E queue \in {-1, QUEUE_THRESHOLD, QUEUE_THRESHOLD + 1} :
         /\ status' = [status EXCEPT !.mail_queue = queue]
         /\ alerts' = IF queue > QUEUE_THRESHOLD
                        THEN Append(alerts, Alert("mail_queue", 0))
                        ELSE alerts
         /\ ProbeDone("mail_queue", 0, queue = -1, "ssl")
    /\ UNCHANGED <<mconfig, mode, exitCode, cycles, prevHadAlerts, probeIdx, posted, saved, reportWritten, reportVars,
                   pipelineVars, toolVars>>

(* check_ssl_certificates: ssl_valid is True when certbot printed VALID,
   False otherwise and when certbot could not be run *)
CheckSslCertificates ==
    /\ mpc = "ssl"
    /\ \E outcome \in {"valid", "invalid", "error"} :
         /\ status' = [status EXCEPT !.ssl_valid = (outcome = "valid")]
         /\ alerts' = IF outcome = "valid"
                        THEN alerts
                        ELSE Append(alerts, Alert("ssl", 0))
         /\ ProbeDone("ssl", 0, outcome = "error", AfterSsl)
    /\ UNCHANGED <<mconfig, mode, exitCode, cycles, prevHadAlerts, probeIdx, posted, saved, reportWritten, reportVars,
                   pipelineVars, toolVars>>

(* one iteration of "for account in self.config['test_accounts']":
   test_smtp_connectivity and test_imap_connectivity return True, or False
   when the connection or the login raised *)
TestEmailConnectivity ==
    /\ mpc = "email"
    /\ \E smtp \in BOOLEAN, imap \in BOOLEAN :
         /\ status' = [status EXCEPT
                         !.email_tests = Append(@, [smtp |-> smtp, imap |-> imap])]
         /\ alerts' = alerts
                        \o (IF smtp THEN << >> ELSE << Alert("smtp", probeIdx) >>)
                        \o (IF imap THEN << >> ELSE << Alert("imap", probeIdx) >>)
         /\ ProbeDone("email", probeIdx, ~smtp \/ ~imap,
                      IF probeIdx = mconfig.nAccounts THEN "classify" ELSE "email")
    /\ probeIdx' = IF probeIdx = mconfig.nAccounts THEN 1 ELSE probeIdx + 1
    /\ UNCHANGED <<mconfig, mode, exitCode, cycles, prevHadAlerts, posted, saved, reportWritten, reportVars, pipelineVars, toolVars>>

(* what the caller of run_health_check does first with the snapshot: the
   loop saves it (line 352), main() under --once notifies (line 414) *)
AfterHealthCheck_Mut(m) == "notify"

AfterHealthCheck(m) == IF m = "once" THEN "notify" ELSE "save"

(* the overall status of a snapshot with n alerts, n > 0 *)
SeverityOf_Mut(n) == IF n < 2 THEN "warning" ELSE "critical"

SeverityOf(n) == IF n <= 2 THEN "warning" ELSE "critical"

(* run_health_check, "Determine overall status" and the return: with no
   alert the status keeps the 'healthy' it was created with and has no
   'alerts' key *)
DetermineOverallStatus ==
    /\ mpc = "classify"
    /\ status' = IF alerts # << >>
                   THEN [status EXCEPT !.overall_status = SeverityOf(Len(alerts)),
                                       !.alerts = alerts]
                   ELSE status
    /\ lastProbe' = NoProbe
    /\ mpc' = AfterHealthCheck(mode)
    /\ UNCHANGED <<mconfig, mode, exitCode, cycles, prevHadAlerts, alerts, probeIdx, probesRun,
                   posted, saved, reportWritten, reportVars, pipelineVars, toolVars>>

---------------------------------------------------------------------------
(* The health monitor: save_status_report and the rest of the loop *)

(* sorted(reports_dir.glob("health_report_*.json"))[0]: the names differ in
   their timestamp, whose format sorts in time order *)
Oldest(files) == CHOOSE f \in files : \A g \in files : f <= g

(* "for old_report in reports[:-100]: old_report.unlink()" *)
RECURSIVE KeepNewest(_, _)
KeepNewest(files, n) ==
    IF Cardinality(files) <= n THEN files ELSE KeepNewest(files \ {Oldest(files)}, n)

(* save_status_report at time t: the report directory or the file cannot be
   created (nothing is written); the file is created and json.dump or the
   close raises (disk full); or the file is written and the old reports are
   removed.  Every error is caught and logged, skipping the removal. *)
WriteReport(t) ==
    \E outcome \in {"written", "open_failed", "dump_failed"} :
      /\ reportWritten' = (outcome = "written")
      /\ reportFiles' =
           CASE outcome = "open_failed" -> reportFiles
             [] outcome = "dump_failed" -> reportFiles \cup {t}
             [] outcome = "written" -> KeepNewest(reportFiles \cup {t}, REPORTS_KEPT)

(* the loop's "if status['overall_status'] != 'healthy'" *)
ShouldNotify_Mut(st) == st.alerts = << >>

ShouldNotify(st) == st.overall_status # "healthy"

(* save_status_report(status), called by the loop before the notification
   and by main() under --once after it; its own "except Exception" logs a
   failed write and the call returns normally *)
SaveStatusReport_Mut ==
    /\ mpc = "save"
    /\ WriteReport(now)
    /\ saved' = TRUE
    /\ mpc' = CASE ~reportWritten' /\ mode # "once" -> "loop_error"
                [] reportWritten' /\ mode # "once" /\ ShouldNotify(status) -> "notify"
                [] mode = "once" -> "exit"
                [] OTHER -> "sleep"
    /\ UNCHANGED <<mconfig, mode, exitCode, cycles, prevHadAlerts, alerts, status,
                   probeIdx, lastProbe, probesRun, posted, now, saves,
                   pipelineVars, toolVars>>

SaveStatusReport ==
    /\ mpc = "save"
    /\ WriteReport(now)
    /\ saved' = TRUE
    /\ mpc' = CASE mode = "once" -> "exit"
                [] mode # "once" /\ ShouldNotify(status) -> "notify"
                [] OTHER -> "sleep"
    /\ UNCHANGED <<mconfig, mode, exitCode, cycles, prevHadAlerts, alerts, status,
                   probeIdx, lastProbe, probesRun, posted, now, saves,
                   pipelineVars, toolVars>>

(* the next step of the caller of send_webhook_notification *)
AfterNotification(m) == IF m = "once" THEN "save" ELSE "sleep"

(* send_webhook_notification: returns at once without a webhook_url;
   otherwise one POST is made, which is answered 200, answered something
   else, or raises; the last two are logged and nothing is raised.  The
   configuration is read (config.get, config['webhook_url']), never
   assigned. *)
SendWebhookNotification_Mut ==
    /\ mpc = "notify"
    /\ IF mconfig.webhook
         THEN \E answer \in {"200", "other", "exc"} :
                posted' = Append(posted, answer = "200")
         ELSE UNCHANGED posted
    /\ mconfig' = [mconfig EXCEPT !.webhook = FALSE]
    /\ mpc' = AfterNotification(mode)
    /\ UNCHANGED <<mode, exitCode, cycles, prevHadAlerts, alerts, status,
                   probeIdx, lastProbe, probesRun, saved, reportWritten, reportVars,
                   pipelineVars, toolVars>>

SendWebhookNotification ==
    /\ mpc = "notify"
    /\ IF mconfig.webhook
         THEN \E answer \in {"200", "other", "exc"} :
                posted' = Append(posted, answer = "200")
         ELSE UNCHANGED posted
    /\ mpc' = AfterNotification(mode)
    /\ UNCHANGED <<mconfig, mode, exitCode, cycles, prevHadAlerts, alerts, status,
                   probeIdx, lastProbe, probesRun, saved, reportWritten, reportVars,
                   pipelineVars, toolVars>>

(* time.sleep(self.config['check_interval']): the iteration ends and the
   next one starts at a later second *)
MonitorSleep ==
    /\ mpc = "sleep"
    /\ now' = now + 1
    /\ posted' = << >>
    /\ mpc' = "loop"
    /\ UNCHANGED <<mconfig, mode, exitCode, cycles, prevHadAlerts, alerts, status,
                   probeIdx, lastProbe, probesRun, saved, reportWritten, reportFiles, saves,
                   pipelineVars, toolVars>>

(* "except Exception" of the loop: log, time.sleep(60), next iteration *)
AfterCooldown_Mut == "crashed"

AfterCooldown == "loop"

MonitorLoopError ==
    /\ mpc = "loop_error"
    /\ now' = now + 1
    /\ mpc' = AfterCooldown
    /\ UNCHANGED <<mconfig, mode, exitCode, cycles, prevHadAlerts, healthVars,
                   reportFiles, saves, pipelineVars, toolVars>>

(* the positions inside the "try" of the loop *)
InTry ==
    {"loop", "health_check", "services", "ports", "resources", "mail_queue",
     "ssl", "email", "classify", "save", "notify", "sleep"}

(* Ctrl-C: a KeyboardInterrupt inside the "try" is logged and breaks the
   loop, main() returns and the process ends with status 0; one raised by
   the time.sleep(60) of the "except Exception" clause is caught by nothing
   and the interpreter ends with status 1, or 130 when it re-raises the
   signal.  The memory of the process is gone. *)
MonitorInterrupt ==
    /\ mode = "continuous"
    /\ mpc \in InTry \cup {"loop_error"}
    /\ mpc' = "stopped"
    /\ exitCode' \in (IF mpc \in InTry THEN {0} ELSE {1, 130})
    /\ alerts' = << >>
    /\ status' = EmptyStatus
    /\ probeIdx' = 1
    /\ lastProbe' = NoProbe
    /\ probesRun' = 0
    /\ posted' = << >>
    /\ saved' = FALSE
    /\ reportWritten' = FALSE
    /\ UNCHANGED <<mconfig, mode, cycles, prevHadAlerts, reportVars, pipelineVars, toolVars>>

(* main(): "--once" as first argument runs one health check on a new
   monitor, "--help" prints the usage and exits 0, anything else and no
   argument at all start run_continuous_monitoring *)
ModeOf(argv) ==
    CASE argv = "--once" -> "once"
      [] argv = "--help" -> "help"
      [] OTHER -> "continuous"

Main ==
    /\ mpc = "main"
    /\ \E argv \in {"--once", "--help", "--other", "none"} :
         /\ mode' = ModeOf(argv)
         /\ mpc' = CASE ModeOf(argv) = "once" -> "health_check"
                     [] ModeOf(argv) = "help" -> "exited"
                     [] OTHER -> "loop"
         /\ cycles' = IF ModeOf(argv) = "once" THEN 1 ELSE 0
         /\ exitCode' = IF ModeOf(argv) = "help" THEN 0 ELSE -1
    /\ UNCHANGED <<mconfig, prevHadAlerts, healthVars, reportVars, pipelineVars, toolVars>>

(* main() under --once: sys.exit(0 if overall_status == 'healthy' else 1) *)
ExitCodeOf_Mut(st) == IF st.overall_status = "critical" THEN 1 ELSE 0

ExitCodeOf(st) == IF st.overall_status = "healthy" THEN 0 ELSE 1

MainExit ==
    /\ mpc = "exit"
    /\ exitCode' = ExitCodeOf(status)
    /\ mpc' = "exited"
    /\ UNCHANGED <<mconfig, mode, cycles, prevHadAlerts, healthVars, reportVars,
                   pipelineVars, toolVars>>

(* main() under --once: an exception that left run_health_check is caught
   by nothing; the interpreter prints the traceback and ends with status 1 *)
MainUncaught ==
    /\ mpc = "uncaught"
    /\ exitCode' = 1
    /\ mpc' = "crashed"
    /\ UNCHANGED <<mconfig, mode, cycles, prevHadAlerts, healthVars, reportVars,
                   pipelineVars, toolVars>>

MonitorInit ==
    /\ PipelineIdle
    /\ ToolsIdle
    /\ mconfig \in MonitorConfigs
    /\ mode = "none"
    /\ exitCode = -1
    /\ mpc = "main"
    /\ reportFiles = {}
    /\ now = 0
    /\ MonitorConstructed

MonitorNext ==
    \/ Main
    \/ ClearAlerts
    \/ RunHealthCheck
    \/ CheckServiceStatus
    \/ CheckPortConnectivity
    \/ CheckSystemResources
    \/ CheckMailQueue
    \/ CheckSslCertificates
    \/ TestEmailConnectivity
    \/ DetermineOverallStatus
    \/ SaveStatusReport
    \/ SendWebhookNotification
    \/ MonitorSleep
    \/ MonitorLoopError
    \/ MonitorInterrupt
    \/ MainExit
    \/ MainUncaught

MonitorSpec == MonitorInit /\ [][MonitorNext]_vars

(* save_status_report called again and again, zero or more seconds apart,
   on a directory that holds the reports of k earlier calls *)
SaveInit ==
    /\ PipelineIdle
    /\ ToolsIdle
    /\ mconfig = [nServices |-> 0, nPorts |-> 0, nAccounts |-> 0, webhook |-> FALSE]
    /\ mode = "none"
    /\ exitCode = -1
    /\ mpc = "save_again"
    /\ \E k \in 0..REPORTS_KEPT : reportFiles = 1..k /\ now = k
    /\ MonitorConstructed

SaveStatusReportAgain ==
    /\ mpc = "save_again"
    /\ saves < MaxSaves
    /\ \E tick \in {0, 1} :
         /\ now' = now + tick
         /\ WriteReport(now + tick)
    /\ saves' = saves + 1
    /\ UNCHANGED <<mconfig, mode, exitCode, mpc, cycles, prevHadAlerts, alerts, status,
                   probeIdx, lastProbe, probesRun, posted, saved, pipelineVars, toolVars>>

SaveNext == SaveStatusReportAgain

SaveSpec == SaveInit /\ [][SaveNext]_vars

---------------------------------------------------------------------------
(* load_config of the monitor and of the orchestrator *)

(* the keys of the monitor's default_config and of its 'thresholds' *)
MonitorKeys ==
    {"check_interval", "webhook_url", "alert_email", "thresholds", "services",
     "ports", "test_accounts"}

ThresholdKeys == {"disk_usage", "memory_usage", "load_average", "queue_size"}

(* the keys of the document create_default_config writes *)
OrchestratorKeys ==
    {"vps_provider", "dns_provider", "domains", "email_settings",
     "server_settings", "monitoring"}

(* a configuration file: missing, or a JSON object with some of the keys;
   its 'thresholds' section, when present, has some of the four entries *)
Documents(keys) ==
    {NoDocument} \cup
    { d \in [exists : {TRUE}, keys : SUBSET keys, thresholds : SUBSET ThresholdKeys] :
        "thresholds" \notin d.keys => d.thresholds = {} }

(* the merge of EmailServerMonitor.load_config: a key of default_config
   that the document lacks gets the default value, whole; a key the
   document has keeps the document's value, whole *)
MergedThresholds(doc) ==
    IF "thresholds" \in doc.keys THEN doc.thresholds ELSE ThresholdKeys

(* EmailServerMonitor.load_config: the defaults when the file is missing,
   else the document merged with the defaults *)
MonitorLoadConfig ==
    /\ lpc = "monitor_load"
    /\ loadedConfig' =
         IF cfgDoc.exists
           THEN [ keys |-> cfgDoc.keys \cup MonitorKeys,
                  defaults |-> MonitorKeys \ cfgDoc.keys,
                  thresholds |-> MergedThresholds(cfgDoc) ]
           ELSE [ keys |-> MonitorKeys, defaults |-> MonitorKeys,
                  thresholds |-> ThresholdKeys ]
    /\ lpc' = "health_check"
    /\ UNCHANGED <<cfgDoc, lexit, pipelineVars, monitorVars, managerVars,
                   configuratorVars>>

(* run_health_check, the threshold checks: thresholds = config['thresholds']
   and then thresholds['disk_usage'], ['memory_usage'], ['load_average'],
   ['queue_size'], each raising KeyError when the entry is not defined *)
EvaluateThresholds ==
    /\ lpc = "health_check"
    /\ lpc' = IF ThresholdKeys \subseteq loadedConfig.thresholds
                THEN "evaluated" ELSE "key_error"
    /\ UNCHANGED <<cfgDoc, loadedConfig, lexit, pipelineVars, monitorVars, managerVars,
                   configuratorVars>>

(* VPSEmailOrchestrator.load_config: the document as it is; when the file
   is missing, create_default_config writes the default document (or raises
   when the file cannot be created) and the process exits with status 1 *)
OrchestratorLoadConfig ==
    /\ lpc = "orchestrator_load"
    /\ IF cfgDoc.exists
         THEN /\ loadedConfig' = [ keys |-> cfgDoc.keys, defaults |-> {},
                                   thresholds |-> {} ]
              /\ lpc' = "loaded"
              /\ UNCHANGED <<cfgDoc, lexit>>
         ELSE /\ \E write \in {"ok", "exc"} :
                   cfgDoc' = IF write = "ok"
                               THEN [ exists |-> TRUE, keys |-> OrchestratorKeys,
                                      thresholds |-> {} ]
                               ELSE cfgDoc
              /\ lexit' = 1
              /\ lpc' = "exited"
              /\ UNCHANGED loadedConfig
    /\ UNCHANGED <<pipelineVars, monitorVars, managerVars,
                   configuratorVars>>

LoadInit ==
    /\ PipelineIdle
    /\ MonitorIdle
    /\ ManagerIdle
    /\ ConfiguratorIdle
    /\ loadedConfig = NoConfig
    /\ lexit = -1
    /\ \/ lpc = "monitor_load" /\ cfgDoc \in Documents(MonitorKeys)
       \/ lpc = "orchestrator_load"
            /\ cfgDoc \in { d \in Documents(OrchestratorKeys) : d.thresholds = {} }

LoadNext ==
    \/ MonitorLoadConfig
    \/ EvaluateThresholds
    \/ OrchestratorLoadConfig

LoadSpec == LoadInit /\ [][LoadNext]_vars

---------------------------------------------------------------------------
(* DNSManager of the enhanced configurator: analyze_dns and
   suggest_dns_configuration *)

ManagerDomains == {"example.com", "example.org"}

ServerIps == {"192.0.2.1", "192.0.2.2"}

(* a host name is given by the substrings it contains, of those the code
   looks for; what contains 'protection.outlook.com' contains 'outlook.com' *)
MxServers ==
    { {}, {"mail.ovh.net"}, {"google.com"}, {"googlemail.com"},
      {"outlook.com", "protection.outlook.com"}, {"google.com", "outlook.com"} }

Nameservers ==
    { {}, {"ovh.net"}, {"cloudflare.com"}, {"digitalocean.com"}, {"route53"},
      {"amazonaws.com"}, {"namecheap.com"}, {"cloudflare.com", "digitalocean.com"} }

MxPriorities == {10, 20}

(* a line of "dig +short MX": priority and server; a line of one word; a
   line whose first word is not a number *)
MxLines ==
    [kind : {"mx"}, priority : MxPriorities, server : MxServers]
      \cup [kind : {"short", "nan"}, priority : {0}, server : {{}}]

SeqsUpTo(S, n) == UNION { [1..k -> S] : k \in 0..n }

Answers(S, n) ==
    [error : {FALSE}, lines : SeqsUpTo(S, n)] \cup [error : {TRUE}, lines : {<< >>}]

(* sorted(mx_records, key=lambda x: x['priority']): the sort is stable *)
InOrder_Mut(p, q) == p >= q

InOrder(p, q) == p <= q

RECURSIVE SortedByPriority(_)
SortedByPriority(records) ==
    IF records = << >>
      THEN << >>
      ELSE LET rest == SortedByPriority(SubSeq(records, 1, Len(records) - 1))
               last == records[Len(records)]
               before == SelectSeq(rest, LAMBDA r : InOrder(r.priority, last.priority))
               after == SelectSeq(rest, LAMBDA r : ~InOrder(r.priority, last.priority))
           IN before \o << last >> \o after

(* get_mx_records: lines of fewer than two words are skipped, int() of a
   first word that is not a number raises; every exception gives [] *)
ParsedMx(answer) ==
    LET lines == SelectSeq(answer.lines, LAMBDA l : l.kind # "short")
    IN [i \in 1..Len(lines) |-> [priority |-> lines[i].priority,
                                 server |-> lines[i].server]]

MxRecordsOf(answer) ==
    IF answer.error \/ \E i \in 1..Len(answer.lines) : answer.lines[i].kind = "nan"
      THEN << >>
      ELSE SortedByPriority(ParsedMx(answer))

GetMxRecords ==
    /\ dpc = "get_mx_records"
    /\ current_mx' = MxRecordsOf(mxAnswer)
    /\ dpc' = "detect_dns_provider"
    /\ UNCHANGED <<domain, mxAnswer, nsAnswer, dns_provider, conflicts, suggestions,
                   loaderVars, configuratorVars, pipelineVars, monitorVars>>

(* detect_dns_provider, the if / elif chain on one nameserver *)
ProviderOf_Mut(ns) ==
    CASE "ovh.net" \in ns -> "ovh"
      [] "cloudflare.com" \in ns -> "cloudflare"
      [] "digitalocean.com" \in ns -> "digitalocean"
      [] "route53" \in ns -> "route53"
      [] "namecheap.com" \in ns -> "namecheap"
      [] OTHER -> "none"

ProviderOf(ns) ==
    IF "ovh.net" \in ns THEN "ovh"
    ELSE IF "cloudflare.com" \in ns THEN "cloudflare"
    ELSE IF "digitalocean.com" \in ns THEN "digitalocean"
    ELSE IF "route53" \in ns \/ "amazonaws.com" \in ns THEN "route53"
    ELSE IF "namecheap.com" \in ns THEN "namecheap"
    ELSE "none"

(* "for ns in nameservers": the first one that names a provider decides *)
RECURSIVE FirstProvider(_)
FirstProvider(nameservers) ==
    IF nameservers = << >>
      THEN "unknown"
      ELSE IF ProviderOf(Head(nameservers)) # "none"
             THEN ProviderOf(Head(nameservers))
             ELSE FirstProvider(Tail(nameservers))

DetectDnsProvider ==
    /\ dpc = "detect_dns_provider"
    /\ dns_provider' = IF nsAnswer.error THEN "unknown" ELSE FirstProvider(nsAnswer.lines)
    /\ dpc' = "check_conflicts"
    /\ UNCHANGED <<domain, mxAnswer, nsAnswer, current_mx, conflicts, suggestions,
                   loaderVars, configuratorVars, pipelineVars, monitorVars>>

(* check_conflicts: the three rules and their texts *)
ConflictKinds == << "ovh_mx_plan", "google_workspace", "microsoft_365" >>

Solution(kind) ==
    CASE kind = "ovh_mx_plan" -> "Delete OVH MX records or suspend MX Plan service"
      [] kind = "google_workspace" -> "Disable Google Workspace or use subdomain"
      [] kind = "microsoft_365" -> "Disable Microsoft 365 or use subdomain"

RuleMatches_Mut(kind, server) ==
    CASE kind = "ovh_mx_plan" -> "mail.ovh.net" \in server
      [] kind = "google_workspace" -> "google.com" \in server
      [] kind = "microsoft_365" ->
           "outlook.com" \in server \/ "protection.outlook.com" \in server

RuleMatches(kind, server) ==
    CASE kind = "ovh_mx_plan" -> "mail.ovh.net" \in server
      [] kind = "google_workspace" ->
           "google.com" \in server \/ "googlemail.com" \in server
      [] kind = "microsoft_365" ->
           "outlook.com" \in server \/ "protection.outlook.com" \in server

(* one "for mx in self.current_mx" loop *)
ConflictsOfKind(kind, records) ==
    LET hits == SelectSeq(records, LAMBDA mx : RuleMatches(kind, mx.server))
    IN [i \in 1..Len(hits) |->
          [type |-> kind, record |-> hits[i], solution |-> Solution(kind)]]

CheckConflicts ==
    /\ dpc = "check_conflicts"
    /\ conflicts' = ConflictsOfKind(ConflictKinds[1], current_mx)
                      \o ConflictsOfKind(ConflictKinds[2], current_mx)
                      \o ConflictsOfKind(ConflictKinds[3], current_mx)
    /\ dpc' = "analyzed"
    /\ UNCHANGED <<domain, mxAnswer, nsAnswer, current_mx, dns_provider, suggestions,
                   loaderVars, configuratorVars, pipelineVars, monitorVars>>

(* suggest_dns_configuration: a new dictionary built from self.domain and
   server_ip; a text is the sequence of its parts *)
SUGGESTED_TTL == 3600

SUGGESTED_MX_PRIORITY == 10

SuggestedRecord(type, name, value, priority) ==
    [type |-> type, name |-> name, value |-> value, priority |-> priority,
     ttl |-> SUGGESTED_TTL]

SuggestDnsConfiguration_Mut(d, server_ip) ==
    [ required_records |->
        << SuggestedRecord("A", "mail", << server_ip >>, Len(suggestions)) >>,
      optional_records |-> << >> ]

SuggestDnsConfiguration(d, server_ip) ==
    [ required_records |->
        << SuggestedRecord("A", "mail", << server_ip >>, 0),
           SuggestedRecord("MX", "@", << "mail.", d >>, SUGGESTED_MX_PRIORITY),
           SuggestedRecord("TXT", "@", << "v=spf1 mx a ip4:", server_ip, " ~all" >>, 0) >>,
      optional_records |->
        << SuggestedRecord("TXT", "_dmarc",
                           << "v=DMARC1; p=quarantine; rua=mailto:dmarc@", d >>, 0),
           SuggestedRecord("CNAME", "autoconfig", << "mail.", d >>, 0),
           SuggestedRecord("CNAME", "autodiscover", << "mail.", d >>, 0) >> ]

(* a caller of analyze_dns asks for the suggestions *)
Suggest ==
    /\ dpc = "analyzed"
    /\ Len(suggestions) < MaxSuggestCalls
    /\ \E server_ip \in ServerIps :
         suggestions' = Append(suggestions,
                               [ server_ip |-> server_ip,
                                 result |-> SuggestDnsConfiguration(domain, server_ip) ])
    /\ UNCHANGED <<domain, mxAnswer, nsAnswer, current_mx, dns_provider, conflicts, dpc,
                   loaderVars, configuratorVars, pipelineVars, monitorVars>>

(* a new DNSManager for a domain whose two dig answers have at most
   MaxDigLines lines together *)
DnsInit ==
    /\ PipelineIdle
    /\ MonitorIdle
    /\ LoaderIdle
    /\ ConfiguratorIdle
    /\ domain \in ManagerDomains
    /\ mxAnswer \in Answers(MxLines, MaxDigLines)
    /\ nsAnswer \in Answers(Nameservers, MaxDigLines)
    /\ Len(mxAnswer.lines) + Len(nsAnswer.lines) <= MaxDigLines
    /\ ManagerConstructed
    /\ dpc = "get_mx_records"

DnsNext ==
    \/ GetMxRecords
    \/ DetectDnsProvider
    \/ CheckConflicts
    \/ Suggest

DnsSpec == DnsInit /\ [][DnsNext]_vars

---------------------------------------------------------------------------
(* EnhancedEmailConfigurator.run *)

(* "for i in range(3)" of the configurator's create_email_accounts *)
CONFIGURATOR_EMAILS_PER_DOMAIN == 3

(* the configuration file as load_config finds it: readable JSON with a
   list of domains; missing; not JSON; or not readable as a dictionary
   (PermissionError, a JSON list), which load_config does not catch *)
ConfigFiles ==
    [kind : {"ok"}, domains : 0..MaxDomains]
      \cup [kind : {"missing", "bad_json", "unreadable"}, domains : {0}]

(* what the user can type at the prompt *)
Responses == {"y", "yes", "Y", "YES", "Yes", "n", "N", "no", "", "maybe"}

(* str.lower() on the answers of Responses *)
Lower(text) ==
    CASE text \in {"Y"} -> "y"
      [] text \in {"YES", "Yes"} -> "yes"
      [] text = "N" -> "n"
      [] OTHER -> text

(* "if response.lower() not in ['y', 'yes']: return" *)
Confirmed_Mut(text) == Lower(text) \notin {"n", "no"}

Confirmed(text) == Lower(text) \in {"y", "yes"}

(* analyze_dns of a new DNSManager, then has_conflicts() *)
HasConflictsAfterAnalysis(answer) ==
    LET records == MxRecordsOf(answer)
    IN ConflictsOfKind(ConflictKinds[1], records)
         \o ConflictsOfKind(ConflictKinds[2], records)
         \o ConflictsOfKind(ConflictKinds[3], records) # << >>

configuratorFrame == <<pipelineVars, monitorVars, loaderVars, managerVars>>

(* run: load_config and the test of self.domains.  A missing file is
   replaced by a default configuration file and the run ends; a file that
   is not JSON ends the run; other errors are not caught *)
RunLoadConfig ==
    /\ rpc = "load_config"
    /\ domains' = IF cfgFile.kind = "ok" THEN cfgFile.domains ELSE domains
    /\ rpc' = CASE cfgFile.kind = "unreadable" -> "raised"
                [] cfgFile.kind \in {"missing", "bad_json"} -> "returned"
                [] cfgFile.kind = "ok" /\ cfgFile.domains = 0 -> "returned"
                [] OTHER -> "server_ip"
    /\ UNCHANGED <<cfgFile, configurator_ip, dns_managers, response, created_accounts,
                   outputWritten, configuratorFrame>>

(* self.server_ip = self.get_server_ip(): the address, or None when no
   service answered *)
GetServerIp ==
    /\ rpc = "server_ip"
    /\ configurator_ip' \in {"None", "ip"}
    /\ rpc' = "analyze"
    /\ UNCHANGED <<cfgFile, domains, dns_managers, response, created_accounts,
                   outputWritten, configuratorFrame>>

(* analyze_all_domains, one iteration of "for domain in self.domains": a
   new DNSManager analyses the domain and is stored; conflicts are printed *)
AnalyzeAllDomains ==
    /\ rpc = "analyze"
    /\ \E answer \in Answers(MxLines, 1) :
         dns_managers' = Append(dns_managers, HasConflictsAfterAnalysis(answer))
    /\ rpc' = IF Len(dns_managers) + 1 = domains THEN "instructions" ELSE "analyze"
    /\ UNCHANGED <<cfgFile, domains, configurator_ip, response, created_accounts,
                   outputWritten, configuratorFrame>>

(* generate_dns_instructions: asks for the server address again when there
   is none, and prints nothing without it *)
GenerateDnsInstructions ==
    /\ rpc = "instructions"
    /\ IF configurator_ip = "None"
         THEN configurator_ip' \in {"None", "ip"}
         ELSE UNCHANGED configurator_ip
    /\ rpc' = "prompt"
    /\ UNCHANGED <<cfgFile, domains, dns_managers, response, created_accounts,
                   outputWritten, configuratorFrame>>

(* the confirmation prompt: input() raises EOFError on a closed stdin;
   any answer but y / yes ends the run *)
ConfirmationPrompt ==
    /\ rpc = "prompt"
    /\ \E eof \in BOOLEAN, text \in Responses :
         IF eof
           THEN rpc' = "raised" /\ UNCHANGED response
           ELSE /\ response' = text
                /\ rpc' = IF Confirmed(text) THEN "create_accounts" ELSE "returned"
    /\ UNCHANGED <<cfgFile, domains, configurator_ip, dns_managers, created_accounts,
                   outputWritten, configuratorFrame>>

(* the configurator's create_email_accounts, one iteration of
   "for domain in self.domains": three accounts are appended *)
ConfiguratorCreateEmailAccounts ==
    /\ rpc = "create_accounts"
    /\ created_accounts' = created_accounts + CONFIGURATOR_EMAILS_PER_DOMAIN
    /\ rpc' = IF created_accounts' = CONFIGURATOR_EMAILS_PER_DOMAIN * domains
                THEN "output" ELSE "create_accounts"
    /\ UNCHANGED <<cfgFile, domains, configurator_ip, dns_managers, response,
                   outputWritten, configuratorFrame>>

(* generate_output_files, then print_summary and the return of run:
   output_dir.mkdir may raise (nothing is written), a later write may raise
   (what was written stays), or all files are written *)
GenerateOutputFiles ==
    /\ rpc = "output"
    /\ \E outcome \in {"written", "mkdir_failed", "write_failed"} :
         /\ outputWritten' = (outcome # "mkdir_failed")
         /\ rpc' = IF outcome = "written" THEN "returned" ELSE "raised"
    /\ UNCHANGED <<cfgFile, domains, configurator_ip, dns_managers, response,
                   created_accounts, configuratorFrame>>

ConfiguratorInit ==
    /\ PipelineIdle
    /\ MonitorIdle
    /\ LoaderIdle
    /\ ManagerIdle
    /\ cfgFile \in ConfigFiles
    /\ ConfiguratorConstructed
    /\ rpc = "load_config"

ConfiguratorNext ==
    \/ RunLoadConfig
    \/ GetServerIp
    \/ AnalyzeAllDomains
    \/ GenerateDnsInstructions
    \/ ConfirmationPrompt
    \/ ConfiguratorCreateEmailAccounts
    \/ GenerateOutputFiles

ConfiguratorSpec == ConfiguratorInit /\ [][ConfiguratorNext]_vars

---------------------------------------------------------------------------
(* Properties *)

(* the stages of section 4.1 of the specification, in its order; the model's
   stage is the stage of the step of run_full_automation executed last *)
StageOrder ==
    << "Requested", "Provisioning", "AwaitingSSH", "AwaitingBootstrap",
       "ConfiguringDNS", "ConfiguringMailServer", "CreatingAccounts",
       "Verifying", "Reported" >>

StageRank(s) == CHOOSE i \in 1..Len(StageOrder) : StageOrder[i] = s

TerminalStages == {"Reported", "Failed"}

(* C1: the stage of the job only moves forward in the order Provisioning,
   AwaitingSSH, AwaitingBootstrap, ConfiguringDNS, ConfiguringMailServer,
   CreatingAccounts, Verifying, Reported, or to Failed from a non-terminal
   stage; a terminal stage is never left. *)
C1_StageOnlyAdvances ==
    [][ stage' # stage =>
          /\ stage \notin TerminalStages
          /\ \/ stage' = "Failed"
             \/ StageRank(stage') > StageRank(stage) ]_vars

(* C2: every run of the pipeline eventually returns (Reported or Failed),
   whatever the external world answers. *)
C2_EveryRunTerminates == <>(pc = "returned")

(* C3: when run_full_automation has returned, with the success or the
   failure result, the session of self.ssh_client is closed. *)
C3_SessionClosedOnReturn ==
    (pc = "returned" \/ stage \in TerminalStages) => ~sessionOpen

(* C3 witness: a run that opened the session, issued remote steps, failed
   and returned. *)
C3_Witness ==
    /\ pc = "returned"
    /\ stage = "Failed"
    /\ ssh_client = "SSHClient"
    /\ executed # {}

(* C4: a readiness poll returns False only once the time elapsed since its
   start is at least the timeout; an attempt is made only while the elapsed
   time is below the timeout, each failed attempt costing at least the retry
   sleep, so the attempts are bounded by the timeout; and the poll always
   returns. *)
C4_PollSafety ==
    /\ sshResult = "False" => sshElapsed >= sshTimeout
    /\ dnsResult = "False" => dnsElapsed >= dnsTimeout
    /\ sshAttempts > 0 => (sshAttempts - 1) * SSH_RETRY_SLEEP < sshTimeout
    /\ dnsAttempts > 0 => (dnsAttempts - 1) * DNS_RETRY_SLEEP < dnsTimeout

C4_PollReturned ==
    \/ pc = "poll_ssh" /\ sshResult \in {"True", "False"}
    \/ pc = "poll_dns" /\ dnsResult \in {"True", "False"}

C4_PollReturnsFailureAfterTimeout == [](C4_PollSafety) /\ <>(C4_PollReturned)

(* C4 witness: wait_for_ssh with its default timeout returned False after
   the connection attempts of the whole budget failed. *)
C4_Witness ==
    /\ pc = "poll_ssh"
    /\ sshTimeout = SSH_DEFAULT_TIMEOUT
    /\ sshResult = "False"
    /\ sshAttempts >= 15

(* C5: when wait_for_ssh has returned False (the SSH budget is exhausted),
   the next step of the job is the failure exit: the SSH wait is not
   restarted and the provider is not polled again. *)
C5_SshTimeoutFailsJob ==
    [][ (pc = "wait_ssh" /\ sshResult = "False") => pc' = "finally" ]_vars

(* C6: the job always leaves AwaitingBootstrap: the marker poll is bounded. *)
C6_BootstrapPollBounded ==
    (stage = "AwaitingBootstrap") ~> (stage # "AwaitingBootstrap")

(* C7: after a get-host call answered with an error status the job is on its
   failure exit (the call is not repeated), and create-host is called at most
   once. *)
C7_ProviderErrorFailsJob ==
    /\ createCalls <= 1
    /\ getStatus \notin {0, 200} => pc \in {"finally", "returned"}

(* C8: with an unsupported VPS provider or an unsupported DNS provider no
   stage from ConfiguringMailServer on is executed. *)
C8_UnsupportedProviderAborts ==
    (config.vps_provider \notin {"digitalocean", "vultr"} \/ config.dns_provider # "cloudflare")
      => stage \notin {"ConfiguringMailServer", "CreatingAccounts", "Verifying", "Reported"}

(* C9: after a remote command of setup_mail_server exited non-zero the job
   never is in CreatingAccounts or a later stage other than Failed. *)
C9_MailActionFailureIsFatal ==
    mailActionFailed => stage \notin {"CreatingAccounts", "Verifying", "Reported"}

(* C10: Dovecot is restarted with its TLS configuration only after the
   certbot command has been issued. *)
C10_CertificateBeforeDovecot ==
    "systemctl restart dovecot" \in executed => "certbot certonly" \in executed

(* C11: with 3 domains of 3 accounts each and exactly one failing
   account-creation call (every other call succeeding), the run returns
   Reported with 8 recorded accounts: the failure is kept per account and
   neither aborts the loops nor records the failed account. *)
C11_AccountFailureIsPerAccount ==
    ( /\ pc = "returned"
      /\ config.numDomains = 3
      /\ config.emails_per_domain = 3
      /\ accountFaults = 1
      /\ ~callFailed )
      => (stage = "Reported" /\ Len(email_accounts) = 8)

(* every call of the run so far succeeded and answered ready at once *)
C12_AllCallsSucceeded == ~callFailed /\ accountFaults = 0

C12_AccountsOfDomain(d) ==
    Cardinality({i \in 1..Len(email_accounts) : email_accounts[i].domain = d})

C12_AllAccountsRecorded ==
    /\ stage # "Failed"
    /\ pc = "returned" =>
         /\ stage = "Reported"
         /\ Len(email_accounts) = config.numDomains * config.emails_per_domain
         /\ \A d \in Domains : C12_AccountsOfDomain(d) = config.emails_per_domain

(* C12, as stated: when every call succeeds and the host is ready at once, a
   job with D domains and N accounts per domain never is Failed and reaches
   Reported with exactly D * N accounts, N of them for each domain. *)
C12_HappyPathCreatesAllAccounts ==
    /\ [](C12_AllCallsSucceeded => C12_AllAccountsRecorded)
    /\ <>(~C12_AllCallsSucceeded \/ stage = "Reported")

(* C12, amended: the same for a job with at least one domain. *)
C12_HappyPathWithADomain ==
    /\ []((config.numDomains >= 1 /\ C12_AllCallsSucceeded) => C12_AllAccountsRecorded)
    /\ <>(config.numDomains = 0 \/ ~C12_AllCallsSucceeded \/ stage = "Reported")

(* C12 witness: 2 domains of 2 accounts, every call succeeded, Reported with
   the 4 accounts. *)
C12_Witness ==
    /\ stage = "Reported"
    /\ C12_AllCallsSucceeded
    /\ config.numDomains = 2
    /\ config.emails_per_domain = 2
    /\ Len(email_accounts) = 4

(* C13: the submission of a DNS record, whatever its outcome, is followed by
   the next record or the next domain, never by the failure exit. *)
C13_DnsFailureDoesNotAbort ==
    [][ pc = "dns_records" => pc' \in {"dns_records", "configure_dns"} ]_vars

(* C14: a record of a domain is submitted only after the DNS analyzer has
   been run for that domain. *)
C14_AnalyzerBeforeSubmission ==
    \A p \in dnsSubmitted : p[1] \in AnalyzedDomains

CheckOutcomes == {"PASS", "FAIL", "ERROR"}

(* C15: run_comprehensive_tests records one of PASS, FAIL, ERROR for each of
   its four checks and, whatever they are, hands over to the report step
   without touching the result or the stage; the job leaves Verifying for
   Reported, or for Failed only when writing the report raised; a Reported
   job carries the four outcomes. *)
C15_ChecksNeverFailTheJob ==
    /\ [][ pc = "run_tests" =>
             /\ pc' = "report"
             /\ stage' = "Verifying"
             /\ result' = result
             /\ \A check \in DOMAIN test_results' : test_results'[check] \in CheckOutcomes ]_vars
    /\ [][ (stage = "Verifying" /\ stage' # "Verifying") =>
             (stage' = "Reported" \/ (stage' = "Failed" /\ result.error = "OSError")) ]_vars
    /\ [](stage = "Reported" =>
             \A check \in DOMAIN test_results : test_results[check] \in CheckOutcomes)

(* C15 witness: a job Reported although the SMTP check raised and the
   certificate check failed. *)
C15_Witness ==
    /\ stage = "Reported"
    /\ test_results.smtp_connectivity = "ERROR"
    /\ test_results.ssl_certificates = "FAIL"

(* run_health_check has returned its snapshot to the loop *)
SnapshotReturned == mpc \in {"save", "notify", "sleep", "exit"}

(* C16: the overall status of a returned snapshot is 'healthy' with 0
   alerts, 'warning' with 1 or 2 alerts and 'critical' with 3 or more. *)
C16_SeverityByAlertCount ==
    SnapshotReturned =>
      /\ Len(alerts) = 0 => status.overall_status = "healthy"
      /\ Len(alerts) \in {1, 2} => status.overall_status = "warning"
      /\ Len(alerts) >= 3 => status.overall_status = "critical"

(* C16 witness: a snapshot with exactly 3 alerts, classified critical. *)
C16_Witness ==
    /\ SnapshotReturned
    /\ Len(alerts) = 3
    /\ status.overall_status = "critical"

(* the alerts the probe results of snapshot st call for, in the order of
   run_health_check *)
C17_OwnAlerts(st) ==
    SelectSeq([i \in 1..Len(st.services) |-> Alert("service", i)],
              LAMBDA a : ~st.services[a.idx])
    \o SelectSeq([i \in 1..Len(st.ports) |-> Alert("port", i)],
                 LAMBDA a : ~st.ports[a.idx])
    \o ResourceAlerts(st.resources)
    \o (IF st.mail_queue > QUEUE_THRESHOLD THEN << Alert("mail_queue", 0) >> ELSE << >>)
    \o (IF st.ssl_valid THEN << >> ELSE << Alert("ssl", 0) >>)
    \o SelectSeq([j \in 1..(2 * Len(st.email_tests)) |->
                    Alert(IF j % 2 = 1 THEN "smtp" ELSE "imap", (j + 1) \div 2)],
                 LAMBDA a : ~st.email_tests[a.idx][a.kind])

(* C17: in every returned snapshot, of the first health check and of every
   later one, the alert list is exactly the list of alerts its own probe
   results call for, and the severity is the one of that list: no alert of an
   earlier health check is in it. *)
C17_SnapshotFromOwnProbes ==
    SnapshotReturned =>
      LET own == C17_OwnAlerts(status)
      IN /\ status.alerts = own
         /\ alerts = own
         /\ status.overall_status =
              (IF own = << >> THEN "healthy"
               ELSE IF Len(own) <= 2 THEN "warning" ELSE "critical")

(* C17 witness: the second health check of the loop returned a healthy
   snapshot without alerts although the first one had raised alerts. *)
C17_Witness ==
    /\ SnapshotReturned
    /\ cycles = 2
    /\ prevHadAlerts
    /\ status.alerts = << >>
    /\ status.overall_status = "healthy"

(* C18: the report directory never holds more than 100 health_report
   files. *)
C18_AtMostHundredReports == Cardinality(reportFiles) <= REPORTS_KEPT

(* the alert kinds that stand for a probe *)
AlertKindsOf(probe) ==
    CASE probe = "resources" -> {"disk_usage", "memory_usage", "load_average"}
      [] probe = "email" -> {"smtp", "imap"}
      [] OTHER -> {probe}

InHealthCheck ==
    mpc \in {"services", "ports", "resources", "mail_queue", "ssl", "email", "classify"}

(* C19: when the probe called last raised inside, self.alerts holds an
   alert for that probe. *)
C19_ProbeErrorRaisesAlert ==
    (InHealthCheck /\ lastProbe.errored) =>
      \E i \in 1..Len(alerts) :
        /\ alerts[i].kind \in AlertKindsOf(lastProbe.kind)
        /\ alerts[i].idx = lastProbe.idx

(* the probe calls one run_health_check makes *)
ConfiguredProbes == mconfig.nServices + mconfig.nPorts + 3 + mconfig.nAccounts

(* C20: a probe that raises inside never ends run_health_check: the next
   step is the next probe or the classification; and every returned snapshot
   was built by all the configured probes, holds a result for each configured
   service, port and test account, and is classified. *)
C20_ProbeErrorDoesNotAbort ==
    /\ [][ (lastProbe' # lastProbe /\ lastProbe'.errored) =>
             mpc' \in {"services", "ports", "resources", "mail_queue", "ssl",
                       "email", "classify"} ]_vars
    /\ [](SnapshotReturned =>
            /\ probesRun = ConfiguredProbes
            /\ Len(status.services) = mconfig.nServices
            /\ Len(status.ports) = mconfig.nPorts
            /\ Len(status.email_tests) = mconfig.nAccounts
            /\ status.overall_status \in {"healthy", "warning", "critical"})

(* C20 witness: a classified snapshot returned by a health check whose
   mail-queue probe raised inside (the queue size is -1) and whose resource
   sampling raised at /proc/meminfo, after a service probe. *)
C20_Witness ==
    /\ SnapshotReturned
    /\ status.mail_queue = -1
    /\ status.resources["disk_usage"].present
    /\ ~status.resources["memory_usage"].present
    /\ Len(status.services) = 1
    /\ status.overall_status = "warning"


(* the continuous monitor: main() started run_continuous_monitoring *)
Continuous == mode = "continuous"

(* C21: the continuous loop is left only by Ctrl-C: it never ends by an
   exit or a crash, and it stops only from a position inside the loop; the
   cooldown after an error that left the cycle can always be taken and is
   followed by the head of the loop, where the next cycle can always be
   started and is started by the next step, unless Ctrl-C comes first (the
   model stops after MaxCycles cycles) *)
C21_LoopLeavesOnlyOnInterrupt ==
    /\ [](Continuous => mpc \notin {"exit", "exited", "uncaught", "crashed"})
    /\ [](mpc = "loop_error" => ENABLED MonitorLoopError)
    /\ [](mpc = "loop" /\ cycles < MaxCycles => ENABLED ClearAlerts)
    /\ [][mpc = "loop_error" => mpc' \in {"loop", "stopped"}]_vars
    /\ [][mpc = "loop" => mpc' \in {"health_check", "stopped"}]_vars
    /\ [][mpc' = "stopped" => mpc \in InTry \cup {"loop_error"}]_vars

(* a second cycle has started after the first one ended in the cooldown:
   the hostname command raised, so that no snapshot was made *)
C21_Witness ==
    /\ Continuous
    /\ mpc = "health_check"
    /\ cycles = 2
    /\ status = EmptyStatus
    /\ now = 1

(* C22: in the continuous loop, when a cycle reaches its interval sleep a
   POST was made in it exactly if its snapshot is not healthy and a
   webhook_url is configured; no cycle makes more than one POST; and the
   step after the notification is the interval sleep, which can always be
   taken and leads to the head of the loop, whatever the POST did (unless
   Ctrl-C comes first) *)
C22_NotifyIffNotHealthy ==
    /\ [](Continuous /\ mpc = "sleep" =>
            (posted # << >> <=> status.overall_status # "healthy" /\ mconfig.webhook))
    /\ [](Continuous => Len(posted) <= 1)
    /\ [](Continuous /\ mpc = "sleep" => ENABLED MonitorSleep)
    /\ [][Continuous /\ mpc = "notify" => mpc' \in {"sleep", "stopped"}]_vars
    /\ [][Continuous /\ mpc = "sleep" => mpc' \in {"loop", "stopped"}]_vars

(* the POST of a cycle failed (another answer than 200, or an exception)
   and the cycle is at its interval sleep *)
C22_Witness ==
    /\ Continuous
    /\ mpc = "sleep"
    /\ posted = << FALSE >>
    /\ status.overall_status = "critical"

(* the steps of a cycle, numbered in the order of the claim: clearing the
   alerts, the probes with their threshold checks, the classification, the
   save, the notification, the interval sleep *)
C23_StepRank(p) ==
    CASE p = "loop" -> 1
      [] p \in {"health_check", "services", "ports", "resources", "mail_queue",
                "ssl", "email"} -> 2
      [] p = "classify" -> 3
      [] p = "save" -> 4
      [] p = "notify" -> 5
      [] p = "sleep" -> 6
      [] OTHER -> 0

(* C23: in the continuous loop the steps of a cycle are taken in their
   order: a step is followed by the same or a later step of the cycle, by
   the head of the loop after the sleep, or by the end of the cycle
   (cooldown, Ctrl-C); the health check starts with no alert left over; the
   classification comes after every configured probe has run; the snapshot
   is classified before it is saved; save_status_report has been called with
   it before the notification is sent and before the sleep; thresholds are
   checked right after the probe whose value they test *)
C23_CycleStepsInOrder ==
    /\ [][Continuous /\ mpc \in InTry =>
            \/ C23_StepRank(mpc') >= C23_StepRank(mpc) /\ mpc' \in InTry
            \/ mpc = "sleep" /\ mpc' = "loop"
            \/ mpc' \in {"loop_error", "stopped"}]_vars
    /\ [](Continuous /\ mpc = "health_check" => alerts = << >>)
    /\ [](Continuous /\ mpc \in {"classify", "save", "notify", "sleep"} =>
            probesRun = ConfiguredProbes)
    /\ [](Continuous /\ mpc \in {"save", "notify", "sleep"} =>
            status.overall_status \in {"healthy", "warning", "critical"})
    /\ [](Continuous /\ mpc \in {"services", "ports", "resources", "mail_queue",
                                  "ssl", "email", "classify", "save"} =>
            ~saved /\ posted = << >>)
    /\ [](Continuous /\ mpc \in {"notify", "sleep"} => saved)
    /\ [](Continuous /\ posted # << >> => saved)

(* a cycle of the loop has saved its snapshot and then sent a notification *)
C23_Witness ==
    /\ Continuous
    /\ mpc = "sleep"
    /\ saved
    /\ posted = << TRUE >>
    /\ reportFiles = {now}

(* C24: under --once the process makes one health check and no more, never
   enters the loop, and when it has exited by sys.exit every configured probe
   has run once, the notification was handed to the webhook (one POST when a
   webhook_url is configured), the snapshot was handed to save_status_report,
   and the exit status is 0 for a healthy snapshot and 1 otherwise; status 0
   is never returned without a healthy snapshot.  Under --help the process
   exits 0 and no probe has run.  Without arguments the loop is run. *)
C24_OnceAndHelp ==
    /\ mode = "once" =>
         /\ cycles = 1
         /\ mpc \notin {"loop", "sleep", "loop_error", "stopped"}
         /\ Len(posted) <= 1
         /\ exitCode = 0 => mpc = "exited" /\ status.overall_status = "healthy"
         /\ mpc = "exited" =>
              /\ probesRun = ConfiguredProbes
              /\ saved
              /\ Len(posted) = (IF mconfig.webhook THEN 1 ELSE 0)
              /\ exitCode = (IF status.overall_status = "healthy" THEN 0 ELSE 1)
    /\ mode = "help" =>
         /\ mpc = "exited"
         /\ exitCode = 0
         /\ cycles = 0
         /\ probesRun = 0
         /\ status = EmptyStatus
         /\ reportFiles = {}
    /\ ModeOf("none") = "continuous"
    /\ Continuous => mpc \in InTry \cup {"loop_error", "stopped"}

(* --once has exited with status 1 after a snapshot that is not healthy was
   notified and saved *)
C24_Witness ==
    /\ mode = "once"
    /\ mpc = "exited"
    /\ exitCode = 1
    /\ status.overall_status = "warning"
    /\ posted = << TRUE >>
    /\ reportFiles = {0}

(* C25: the configuration the monitor loaded defines every key of the
   defaults, also every entry of 'thresholds', whatever keys the document
   lacks, and the threshold checks never end in an undefined entry; and an
   orchestrator that found no configuration file has exited with a status
   other than 0 *)
C25_MissingKeysGetDefaults ==
    /\ lpc \in {"health_check", "evaluated", "key_error"} =>
         /\ MonitorKeys \subseteq loadedConfig.keys
         /\ ThresholdKeys \subseteq loadedConfig.thresholds
    /\ lpc # "key_error"
    /\ lpc = "exited" => lexit # 0

(* the substrings of each known mail-hosting signature *)
C26_Signatures(kind) ==
    CASE kind = "ovh_mx_plan" -> {"mail.ovh.net"}
      [] kind = "google_workspace" -> {"google.com", "googlemail.com"}
      [] kind = "microsoft_365" -> {"outlook.com", "protection.outlook.com"}

C26_Kinds == {"ovh_mx_plan", "google_workspace", "microsoft_365"}

(* the MX records whose server holds a substring of the signature *)
C26_MatchingRecords(kind) ==
    {i \in 1..Len(current_mx) : current_mx[i].server \cap C26_Signatures(kind) # {}}

C26_ConflictsOf(kind) == {i \in 1..Len(conflicts) : conflicts[i].type = kind}

(* C26, as stated: after the analysis there are exactly as many conflicts
   as MX records whose server matches a known signature *)
C26_OneConflictPerMatchingRecord ==
    dpc = "analyzed" =>
      Len(conflicts) = Cardinality(UNION {C26_MatchingRecords(k) : k \in C26_Kinds})

(* C26, amended: after the analysis there is exactly one conflict for each
   pair of an MX record and a signature its server matches: every conflict
   is of a known kind, names an MX record that matches its kind and carries
   the remediation text of its kind; each kind has as many conflicts as
   matching records; so a record that matches no signature has none, and
   when no record matches two signatures the conflicts are as many as the
   matching records *)
C26_OneConflictPerMatch ==
    dpc = "analyzed" =>
      /\ \A i \in 1..Len(conflicts) :
           /\ conflicts[i].type \in C26_Kinds
           /\ \E j \in C26_MatchingRecords(conflicts[i].type) :
                conflicts[i].record = current_mx[j]
           /\ conflicts[i].solution =
                (CASE conflicts[i].type = "ovh_mx_plan" ->
                        "Delete OVH MX records or suspend MX Plan service"
                   [] conflicts[i].type = "google_workspace" ->
                        "Disable Google Workspace or use subdomain"
                   [] conflicts[i].type = "microsoft_365" ->
                        "Disable Microsoft 365 or use subdomain")
      /\ \A k \in C26_Kinds :
           Cardinality(C26_ConflictsOf(k)) = Cardinality(C26_MatchingRecords(k))
      /\ (\A k1, k2 \in C26_Kinds :
            k1 # k2 => C26_MatchingRecords(k1) \cap C26_MatchingRecords(k2) = {})
           => Len(conflicts) =
                Cardinality(UNION {C26_MatchingRecords(k) : k \in C26_Kinds})

(* an analysis of two MX records of which one matches a signature *)
C26_Witness ==
    /\ dpc = "analyzed"
    /\ Len(current_mx) = 2
    /\ Len(conflicts) = 1
    /\ conflicts[1].type = "google_workspace"
    /\ "googlemail.com" \in conflicts[1].record.server

(* the provider each known nameserver substring stands for *)
C27_ProviderOfSubstring(sub) ==
    CASE sub = "ovh.net" -> "ovh"
      [] sub = "cloudflare.com" -> "cloudflare"
      [] sub = "digitalocean.com" -> "digitalocean"
      [] sub \in {"route53", "amazonaws.com"} -> "route53"
      [] sub = "namecheap.com" -> "namecheap"

(* C27: after detect_dns_provider, dns_provider is 'unknown' when the
   lookup raised, when it printed no nameserver and when no nameserver holds
   a known substring; otherwise it is the provider of a known substring held
   by the first nameserver that holds one *)
C27_ProviderFingerprint ==
    dpc \in {"check_conflicts", "analyzed"} =>
      LET named == {i \in 1..Len(nsAnswer.lines) : nsAnswer.lines[i] # {}}
      IN IF nsAnswer.error \/ named = {}
           THEN dns_provider = "unknown"
           ELSE LET first == CHOOSE i \in named : \A j \in named : i <= j
                IN dns_provider \in
                     {C27_ProviderOfSubstring(sub) : sub \in nsAnswer.lines[first]}

(* the second nameserver is of amazonaws.com, the first of no known provider *)
C27_Witness ==
    /\ dpc = "analyzed"
    /\ nsAnswer.lines = << {}, {"amazonaws.com"} >>
    /\ dns_provider = "route53"

(* C28: calls of suggest_dns_configuration with the same address on the
   same DNSManager return equal results; every result has the three required
   records (A 'mail' with the address, MX to mail.<domain> with priority 10,
   SPF text holding the address) and the three optional ones (DMARC text,
   autoconfig and autodiscover aliases of mail.<domain>); and a call leaves
   current_mx, dns_provider, conflicts and the domain as they are *)
C28_SuggestionIsPure ==
    /\ [](\A i, j \in 1..Len(suggestions) :
            suggestions[i].server_ip = suggestions[j].server_ip =>
              suggestions[i].result = suggestions[j].result)
    /\ [](\A i \in 1..Len(suggestions) :
            LET req == suggestions[i].result.required_records
                opt == suggestions[i].result.optional_records
                ip == suggestions[i].server_ip
            IN /\ Len(req) = 3
               /\ req[1].type = "A" /\ req[1].name = "mail" /\ req[1].value = << ip >>
               /\ req[2].type = "MX" /\ req[2].value = << "mail.", domain >>
               /\ req[2].priority = 10
               /\ req[3].type = "TXT"
               /\ \E n \in 1..Len(req[3].value) : req[3].value[n] = ip
               /\ Len(opt) = 3
               /\ opt[1].type = "TXT" /\ opt[1].name = "_dmarc"
               /\ opt[2].type = "CNAME" /\ opt[2].name = "autoconfig"
               /\ opt[3].type = "CNAME" /\ opt[3].name = "autodiscover"
               /\ opt[2].value = << "mail.", domain >>
               /\ opt[3].value = << "mail.", domain >>)
    /\ [][suggestions' # suggestions =>
            UNCHANGED <<domain, current_mx, dns_provider, conflicts>>]_vars

(* two calls with the same address on a manager that holds a conflict *)
C28_Witness ==
    /\ Len(suggestions) = 2
    /\ suggestions[1].server_ip = suggestions[2].server_ip
    /\ conflicts # << >>
    /\ dns_provider = "cloudflare"

(* C29: the list get_mx_records returns is in ascending order of priority;
   it is empty when dig raised or printed a priority that is no number;
   otherwise it holds every printed line of two words, as often as printed *)
C29_MxSortedByPriority ==
    dpc # "get_mx_records" =>
      /\ \A i, j \in 1..Len(current_mx) :
           i < j => current_mx[i].priority <= current_mx[j].priority
      /\ IF mxAnswer.error
              \/ \E n \in 1..Len(mxAnswer.lines) : mxAnswer.lines[n].kind = "nan"
           THEN current_mx = << >>
           ELSE \A pr \in MxPriorities, sv \in MxServers :
                  Cardinality({i \in 1..Len(current_mx) :
                                 current_mx[i] = [priority |-> pr, server |-> sv]})
                    = Cardinality({n \in 1..Len(mxAnswer.lines) :
                                     mxAnswer.lines[n] =
                                       [kind |-> "mx", priority |-> pr, server |-> sv]})

(* dig printed priority 20 before priority 10 *)
C29_Witness ==
    /\ dpc = "analyzed"
    /\ Len(mxAnswer.lines) = 2
    /\ mxAnswer.lines[1].kind = "mx" /\ mxAnswer.lines[1].priority = 20
    /\ mxAnswer.lines[2].kind = "mx" /\ mxAnswer.lines[2].priority = 10
    /\ Len(current_mx) = 2
    /\ current_mx[1].priority = 10

(* C30: AwaitingBootstrap comes before ConfiguringDNS: whenever a DNS
   record has been submitted to the provider, wait_for_cloud_init has read
   the completion marker of the host *)
C30_BootstrapBeforeDns == dnsSubmitted # {} => bootstrapSeen

(* create_cloudflare_dns_records, the payload of a record of the list for
   domain d and host address ip: the f-strings of the 'content' fields, a
   text being the sequence of its parts *)
RecordContent(content, d, ip) ==
    CASE content = "vps_ip" -> << ip >>
      [] content = "mail.domain" -> << "mail.", d >>
      [] content = "spf" -> << "v=spf1 mx a ip4:", ip, " ~all" >>
      [] content = "dmarc" -> << "v=DMARC1; p=quarantine; rua=mailto:dmarc@", d >>

PayloadOf(rec, d, ip) ==
    [type |-> rec.type, name |-> rec.name, value |-> RecordContent(rec.content, d, ip)]

(* the records submitted for domain d so far, by type, name and value *)
C31_Submitted(d) ==
    {PayloadOf(DnsRecords[p[2]], d, vps_ip) : p \in {q \in dnsSubmitted : q[1] = d}}

(* the required records suggestion generation gives for d and the address *)
C31_Required(d) ==
    LET req == SuggestDnsConfiguration(d, vps_ip).required_records
    IN {[type |-> req[i].type, name |-> req[i].name, value |-> req[i].value] :
          i \in 1..Len(req)}

(* C31: for every domain, every record submitted to the DNS provider is one
   of the required records of suggestion generation for the domain and the
   host address, and once the last record of the domain has been submitted
   all the required ones have been *)
C31_SubmittedIsRequiredSet ==
    \A d \in Domains :
      /\ C31_Submitted(d) \subseteq C31_Required(d)
      /\ <<d, Len(DnsRecords)>> \in dnsSubmitted => C31_Required(d) \subseteq C31_Submitted(d)

(* C32: in CreatingAccounts the insert of a domain's row is issued before
   the insert of any account of that domain: whenever the account step of
   a domain is about to issue its commands, and for every account already
   returned, the domain's row insert has been issued. *)
C32_DomainRowBeforeAccounts ==
    /\ pc = "create_account" => domIdx \in domainRows
    /\ \A i \in 1..Len(email_accounts) : email_accounts[i].domain \in domainRows

(* an account of the second domain has been created *)
C32_Witness ==
    \E i \in 1..Len(email_accounts) : email_accounts[i].domain = 2
(* C33: the snapshot history is append-only: a save that writes its report
   creates a file that did not exist before the call, so that no report of
   an earlier save is overwritten, also when both saves fall into the same
   second. *)
C33_SaveCreatesNewFile ==
    [][saves' = saves + 1 /\ reportWritten' => now' \notin reportFiles]_vars
(* C34: an account is in the job's account list only after it has been
   persisted on the host: every recorded account has its user row (and
   mailbox), that is, its remote commands succeeded and the domain row it
   selects from exists. *)
C34_RecordedAccountsPersisted ==
    email_accounts # << >> => ~unpersisted
(* C35: the monitor's configuration is unchanged by every monitor
   operation: no step of the health check, of the save, of the notification
   or of the loop changes the configuration loaded at start. *)
C35_ConfigNeverChanges ==
    [][mconfig' = mconfig]_vars

(* the loop is in its second cycle and has checked, saved and notified
   through the configured webhook *)
C35_Witness ==
    /\ mode = "continuous"
    /\ cycles = 2
    /\ mpc = "sleep"
    /\ saved
    /\ posted # << >>
    /\ mconfig.webhook
(* C36: the job's host address is null until provisioning succeeds and is
   set exactly once: it is null at every position of provisioning, it is
   assigned only when it was null, the provider had answered 200 with an
   active host that has a public IPv4 address, and the SSH probe had
   returned True; and whenever a DNS record has been submitted or the job's
   SSH session is open the address is not null. *)
C36_AddressSetOnceAfterProbe ==
    /\ [](pc \in {"start", "create_host", "get_host", "droplet_sleep", "wait_ssh"}
            => vps_ip = "None")
    /\ [][vps_ip' # vps_ip =>
            vps_ip = "None" /\ getStatus = 200 /\ sshResult = "True"]_vars
    /\ [](dnsSubmitted # {} \/ sessionOpen => vps_ip # "None")

(* DNS records were submitted and the SSH session is open *)
C36_Witness ==
    /\ dnsSubmitted # {}
    /\ sessionOpen
    /\ vps_ip = "ip"
(* C37: the final report is generated only when every earlier stage
   completed: a run that ends in Failed has written no report and returns
   only success=False with the error text; a run that returns success=True
   has generated its report exactly once, after verification. *)
C37_ReportOnlyOnSuccess ==
    /\ stage = "Failed" =>
          /\ ~reportStarted /\ reportCount = 0
          /\ result.success = "False" /\ result.error # "none"
    /\ result.success = "True" =>
          /\ reportCount = 1
          /\ test_results # NoTestResults
(* 1 when the condition holds, else 0 *)
C38_One(cond) == IF cond THEN 1 ELSE 0

(* the sample of one resource was taken and is strictly above the threshold *)
C38_Above(sample, threshold) == sample.present /\ sample.value > threshold

(* C38: the alert count of a cycle equals the number of inactive services
   plus the number of unreachable ports plus one for each of disk, memory
   and load whose sampled value is strictly greater than its threshold plus
   one if the mail queue is deeper than its threshold plus one if the
   certificate is not valid plus one per test account whose SMTP login
   failed and one per test account whose IMAP login failed. *)
C38_AlertCount ==
    SnapshotReturned =>
      Len(alerts) =
          Cardinality({i \in 1..Len(status.services) : ~status.services[i]})
        + Cardinality({i \in 1..Len(status.ports) : ~status.ports[i]})
        + C38_One(C38_Above(status.resources.disk_usage, DISK_THRESHOLD))
        + C38_One(C38_Above(status.resources.memory_usage, MEMORY_THRESHOLD))
        + C38_One(C38_Above(status.resources.load_average, LOAD_THRESHOLD))
        + C38_One(status.mail_queue > QUEUE_THRESHOLD)
        + C38_One(~status.ssl_valid)
        + Cardinality({i \in 1..Len(status.email_tests) : ~status.email_tests[i].smtp})
        + Cardinality({i \in 1..Len(status.email_tests) : ~status.email_tests[i].imap})

(* a snapshot whose disk sample equals its threshold and whose memory
   sample is above it carries the memory alert alone *)
C38_Witness ==
    /\ SnapshotReturned
    /\ status.resources.disk_usage = Sampled(DISK_THRESHOLD)
    /\ status.resources.memory_usage = Sampled(MEMORY_THRESHOLD + 1)
    /\ alerts = << Alert("memory_usage", 0) >>
(* C39: a failure to persist the snapshot neither aborts the cycle nor
   suppresses the notification: in the continuous loop, after a save that
   failed, the loop is never in its error cooldown; a non-healthy cycle goes
   on to the notification, and by the time it sleeps its normal interval
   the configured webhook has received its one POST. *)
C39_SaveFailureDoesNotAbort ==
    Continuous /\ saved /\ ~reportWritten =>
      /\ mpc \in {"notify", "sleep", "loop", "health_check"}
      /\ mpc = "notify" => ShouldNotify(status)
      /\ mpc = "sleep" /\ ShouldNotify(status) /\ mconfig.webhook => Len(posted) = 1

(* a non-healthy cycle whose save failed has posted its notification and
   sleeps the check interval *)
C39_Witness ==
    /\ Continuous
    /\ saved
    /\ ~reportWritten
    /\ reportFiles = {}
    /\ status.overall_status = "critical"
    /\ mpc = "sleep"
    /\ Len(posted) = 1
(* the run got as far as the prompt and the user confirmed *)
C40_Confirmed == response \in {"y", "yes", "Y", "YES", "Yes"}

(* C40: in EnhancedEmailConfigurator.run accounts are created and output
   files are written only after the configuration was loaded with at least
   one domain, the DNS analysis has been run for every domain and the user
   answered the prompt with y or yes; detected conflicts do not block this:
   a confirmed run goes on to create the accounts of every domain whatever
   the analysis found; in every other case the run ends with no account
   created and no output file written. *)
C40_AccountsOnlyAfterConfirmation ==
    /\ created_accounts > 0 \/ outputWritten \/ rpc \in {"create_accounts", "output"} =>
          /\ cfgFile.kind = "ok" /\ domains >= 1
          /\ Len(dns_managers) = domains
          /\ C40_Confirmed
    /\ rpc = "prompt" => ENABLED (ConfirmationPrompt /\ rpc' = "create_accounts")
    /\ C40_Confirmed /\ rpc \in {"output", "returned"} =>
          created_accounts = CONFIGURATOR_EMAILS_PER_DOMAIN * domains
    /\ C40_Confirmed /\ rpc = "returned" => outputWritten
    /\ ~C40_Confirmed /\ rpc \in {"returned", "raised"} =>
          created_accounts = 0 /\ ~outputWritten

(* a run on two domains, both with a conflict, was confirmed and has
   created its accounts and written its files *)
C40_Witness ==
    /\ rpc = "returned"
    /\ domains = 2
    /\ dns_managers = << TRUE, TRUE >>
    /\ created_accounts = 2 * CONFIGURATOR_EMAILS_PER_DOMAIN
    /\ outputWritten
====
